---- MODULE Spec2Model ----
(***************************************************************************)
(* Lakeshore 625 magnet power supply driver: the serial protocol client    *)
(* (lakeshore625/power_controller.py) with the serial transport and the    *)
(* instrument it talks to.                                                 *)
(*                                                                         *)
(* Text is a sequence of one-character strings ("\r" and "\n" are CR and   *)
(* LF, "0x80" stands for a received byte that is not ASCII).  A float is   *)
(* an integer count of ten-thousandths (12.5 is 125000), which represents  *)
(* every decimal the driver's range checks compare against exactly.        *)
(***************************************************************************)
EXTENDS Integers, Sequences, FiniteSets, TLC

\* ---------------------------------------------------------------- bounds

\* Lines the serial input buffer can hold before the instrument stops sending.
MaxInbuf == 1

\* Commands the instrument can have received and not yet answered.
MaxPending == 1

\* The callers that can exist: one driver, or the logger and a CLI invocation.
Callers == {1, 2}

\* ------------------------------------------------------------------ text

CR == "\r"
LF == "\n"

DigitChars == <<"0", "1", "2", "3", "4", "5", "6", "7", "8", "9">>

DigitSet == {DigitChars[i] : i \in 1..10}

Whitespace == {" ", "\t", CR, LF, "\f"}

\* str(int) of a natural number.
RECURSIVE NatRepr(_)
NatRepr(n) ==
    IF n < 10 THEN <<DigitChars[n + 1]>>
    ELSE NatRepr(n \div 10) \o <<DigitChars[(n % 10) + 1]>>

\* str(int).
IntRepr(n) == IF n < 0 THEN <<"-">> \o NatRepr(-n) ELSE NatRepr(n)

RECURSIVE StripTrailingZeros(_)
StripTrailingZeros(s) ==
    IF s = <<>> THEN <<>>
    ELSE IF s[Len(s)] = "0" THEN StripTrailingZeros(SubSeq(s, 1, Len(s) - 1))
    ELSE s

\* The four decimals of f ten-thousandths, 0 <= f < 10000.
FracDigits(f) ==
    << DigitChars[(f \div 1000) + 1], DigitChars[((f \div 100) % 10) + 1],
       DigitChars[((f \div 10) % 10) + 1], DigitChars[(f % 10) + 1] >>

\* The text an f-string gives a float of x ten-thousandths: repr(float), the
\* shortest decimal that reads back as the same float, always with a decimal
\* point and at least one decimal (12.5, 5.0, 60.1, -0.0001, 1000.0).
FloatRepr(x) ==
    LET a == IF x < 0 THEN -x ELSE x
        frac == StripTrailingZeros(FracDigits(a % 10000))
    IN  (IF x < 0 THEN <<"-">> ELSE <<>>)
        \o NatRepr(a \div 10000) \o <<".">>
        \o (IF frac = <<>> THEN <<"0">> ELSE frac)

IsAscii(b) == b # "0x80"

\* bytes.decode('ascii', errors='ignore'): bytes that are not ASCII are dropped.
Decode(raw) == SelectSeq(raw, IsAscii)

\* str.strip(): leading and trailing whitespace removed.
RECURSIVE LStrip(_)
LStrip(s) ==
    IF s # <<>> /\ Head(s) \in Whitespace THEN LStrip(Tail(s)) ELSE s

RECURSIVE RStrip(_)
RStrip(s) ==
    IF s # <<>> /\ s[Len(s)] \in Whitespace
    THEN RStrip(SubSeq(s, 1, Len(s) - 1)) ELSE s

Strip(s) == RStrip(LStrip(s))

\* str.split(','): the fields between commas; no comma gives one field.
RECURSIVE Split(_)
Split(s) ==
    IF s = <<>> THEN << <<>> >>
    ELSE LET rest == Split(Tail(s))
         IN  IF Head(s) = "," THEN << <<>> >> \o rest
             ELSE << <<Head(s)>> \o Head(rest) >> \o Tail(rest)

RECURSIVE Join(_, _)
Join(lines, sep) ==
    IF lines = <<>> THEN <<>>
    ELSE IF Len(lines) = 1 THEN lines[1]
    ELSE lines[1] \o <<sep>> \o Join(Tail(lines), sep)

\* The position of a decimal digit character, 0 when it is not one.
DigitValue(ch) ==
    IF ch \in DigitSet THEN (CHOOSE i \in 1..10 : DigitChars[i] = ch) - 1 ELSE 0

IntBody(s) == IF s # <<>> /\ Head(s) \in {"+", "-"} THEN Tail(s) ELSE s

\* Whether int(s) accepts s: surrounding whitespace, an optional sign, then
\* decimal digits, where single underscores may separate digits.
IsIntLiteral(s) ==
    LET b == IntBody(Strip(s))
    IN  /\ b # <<>>
        /\ \A i \in 1..Len(b) : b[i] \in DigitSet \cup {"_"}
        /\ b[1] # "_" /\ b[Len(b)] # "_"
        /\ \A i \in 1..(Len(b) - 1) : ~(b[i] = "_" /\ b[i + 1] = "_")

RECURSIVE NatValue(_)
NatValue(s) ==
    IF s = <<>> THEN 0
    ELSE IF s[Len(s)] = "_" THEN NatValue(SubSeq(s, 1, Len(s) - 1))
    ELSE 10 * NatValue(SubSeq(s, 1, Len(s) - 1)) + DigitValue(s[Len(s)])

\* int(s) of an accepted literal.
IntValue(s) ==
    LET t == Strip(s)
    IN  IF t # <<>> /\ Head(t) = "-" THEN -NatValue(IntBody(t))
        ELSE NatValue(IntBody(t))

\* str.replace(old, ''): every occurrence of old removed, left to right.
RECURSIVE Remove(_, _)
Remove(s, old) ==
    IF Len(s) < Len(old) THEN s
    ELSE IF SubSeq(s, 1, Len(old)) = old
    THEN Remove(SubSeq(s, Len(old) + 1, Len(s)), old)
    ELSE <<Head(s)>> \o Remove(Tail(s), old)

\* The first position of s that holds a character of chars, 0 if none does.
IndexOf(s, chars) ==
    IF \E i \in 1..Len(s) : s[i] \in chars
    THEN CHOOSE i \in 1..Len(s) :
            s[i] \in chars /\ \A j \in 1..(i - 1) : s[j] \notin chars
    ELSE 0

AllDigits(s) == \A i \in 1..Len(s) : s[i] \in DigitSet

RECURSIVE Pow10(_)
Pow10(n) == IF n <= 0 THEN 1 ELSE 10 * Pow10(n - 1)

\* The parts of a float literal: sign, integer digits, fraction digits and
\* exponent text (after e or E), of the text without surrounding whitespace.
FloatParts(s) ==
    LET t == Strip(s)
        body == IntBody(t)
        e == IndexOf(body, {"e", "E"})
        mant == IF e = 0 THEN body ELSE SubSeq(body, 1, e - 1)
        expo == IF e = 0 THEN <<>> ELSE SubSeq(body, e + 1, Len(body))
        dot == IndexOf(mant, {"."})
    IN  [neg |-> t # <<>> /\ Head(t) = "-",
         ip |-> IF dot = 0 THEN mant ELSE SubSeq(mant, 1, dot - 1),
         fp |-> IF dot = 0 THEN <<>> ELSE SubSeq(mant, dot + 1, Len(mant)),
         has_exp |-> e # 0,
         expo |-> expo]

\* Whether float(s) accepts s: optional sign, digits with an optional point,
\* an optional exponent.  (float() also takes 'inf', 'nan' and underscores
\* between digits; no line of the instrument holds them.)
IsFloatLiteral(s) ==
    LET p == FloatParts(s)
    IN  /\ AllDigits(p.ip) /\ AllDigits(p.fp)
        /\ Len(p.ip) + Len(p.fp) >= 1
        /\ p.has_exp => (IntBody(p.expo) # <<>> /\ AllDigits(IntBody(p.expo)))

\* float(s) of an accepted literal, in ten-thousandths, truncated.
FloatValue(s) ==
    LET p == FloatParts(s)
        e == IF p.has_exp THEN IntValue(p.expo) ELSE 0
        shift == 4 - Len(p.fp) + e
        digits == NatValue(p.ip \o p.fp)
        magnitude == IF shift >= 0 THEN digits * Pow10(shift)
                     ELSE digits \div Pow10(-shift)
    IN  IF p.neg THEN -magnitude ELSE magnitude

\* A test that takes every value at or above the mask for a set bit.
BitSetGE(value, mask) == value >= mask

\* value & mask != 0 for a one-bit mask (Python's & is two's complement).
BitSet(value, mask) == ((value \div mask) % 2) = 1

\* ---------------------------------------------------------------- values

\* Python values a call can give back: None, or a str.
None == [t |-> "None", s |-> <<>>]

Str(s) == [t |-> "str", s |-> s]

NO_RESPONSE == <<"N", "O", "_", "R", "E", "S", "P", "O", "N", "S", "E">>

\* An exception of the class exc with the message msg, or a returned value.
Raised(exc, msg) == [kind |-> "raise", val |-> None, exc |-> exc, msg |-> msg]

Returned(val) == [kind |-> "return", val |-> val, exc |-> "", msg |-> <<>>]

\* ------------------------------------------------- public operations
\* What a public operation does before it talks to the transport: it raises,
\* or it hands a command to send_command.  checked records whether a range
\* check on the argument was performed and passed.

Rejects(msg) == [ok |-> FALSE, checked |-> FALSE, cmd |-> <<>>, msg |-> msg]

Sends(cmd, checked) == [ok |-> TRUE, checked |-> checked, cmd |-> cmd, msg |-> <<>>]

get_quench_detect == Sends(<<"Q", "N", "C", "H", "?">>, FALSE)

set_quench_detect(enable) ==
    Sends(<<"Q", "N", "C", "H", " ">> \o IntRepr(IF enable # 0 THEN 1 ELSE 0), FALSE)

set_quench_step_limit(step_limit) ==
    Sends(<<"Q", "N", "C", "H", " ", "1", ",">> \o FloatRepr(step_limit), FALSE)

set_quench_detection(enable, step_limit) ==
    Sends(<<"Q", "N", "C", "H", " ">> \o IntRepr(enable) \o <<" ">> \o FloatRepr(step_limit), FALSE)

get_ramp_rate == Sends(<<"R", "A", "T", "E", "?">>, FALSE)

set_ramp_rate(rate) == Sends(<<"R", "A", "T", "E", " ">> \o FloatRepr(rate), FALSE)

get_field == Sends(<<"R", "D", "G", "F", "?">>, FALSE)

get_voltage == Sends(<<"R", "D", "G", "V", "?">>, FALSE)

get_current == Sends(<<"R", "D", "G", "I", "?">>, FALSE)

set_current(current) == Sends(<<"S", "E", "T", "I", " ">> \o FloatRepr(current), FALSE)

get_limits == Sends(<<"L", "I", "M", "I", "T", "?">>, FALSE)

get_compliance_voltage == Sends(<<"S", "E", "T", "V", "?">>, FALSE)

\* The range checks' literals, in ten-thousandths.
ComplianceVoltageMin == 1000
ComplianceVoltageMax == 50000
CurrentLimitMin == 0
CurrentLimitMax == 601000
VoltageLimitMin == 1000
VoltageLimitMax == 50000
RateLimitMin == 1
RateLimitMax == 999990

\* The check with the edges left out: 0.1 < voltage < 5.0.
ComplianceVoltageInRangeStrict(voltage) ==
    ComplianceVoltageMin < voltage /\ voltage < ComplianceVoltageMax

\* not (0.1 <= voltage <= 5.0)
ComplianceVoltageInRange(voltage) ==
    ComplianceVoltageMin <= voltage /\ voltage <= ComplianceVoltageMax

\* set_compliance_voltage without its range check.
set_compliance_voltage_unchecked(voltage) ==
    Sends(<<"S", "E", "T", "V", " ">> \o FloatRepr(voltage), FALSE)

set_compliance_voltage(voltage) ==
    IF ~ComplianceVoltageInRange(voltage)
    THEN Rejects(<<"Compliance voltage must be between ", "0.1", " and ", "5.0",
                   " V, got ">> \o FloatRepr(voltage))
    ELSE Sends(<<"S", "E", "T", "V", " ">> \o FloatRepr(voltage), TRUE)

CurrentLimitInRange(current_limit) ==
    CurrentLimitMin <= current_limit /\ current_limit <= CurrentLimitMax

VoltageLimitInRange(voltage_limit) ==
    VoltageLimitMin <= voltage_limit /\ voltage_limit <= VoltageLimitMax

RateLimitInRange(rate_limit) ==
    RateLimitMin <= rate_limit /\ rate_limit <= RateLimitMax

\* set_limits with the voltage checked before the current.
set_limits_voltage_first(current_limit, voltage_limit, rate_limit) ==
    IF ~VoltageLimitInRange(voltage_limit)
    THEN Rejects(<<"Voltage limit must be between ", "0.1000", " and ", "5.0000",
                   " V, got ">> \o FloatRepr(voltage_limit))
    ELSE IF ~CurrentLimitInRange(current_limit)
    THEN Rejects(<<"Current limit must be between ", "0", " and ", "60.1000",
                   " A, got ">> \o FloatRepr(current_limit))
    ELSE IF ~RateLimitInRange(rate_limit)
    THEN Rejects(<<"Rate limit must be between ", "0.0001", " and ", "99.999",
                   " A/s, got ">> \o FloatRepr(rate_limit))
    ELSE Sends(<<"L", "I", "M", "I", "T", " ">> \o FloatRepr(current_limit) \o <<",", " ">>
               \o FloatRepr(voltage_limit) \o <<",", " ">>
               \o FloatRepr(rate_limit), TRUE)

set_limits(current_limit, voltage_limit, rate_limit) ==
    IF ~CurrentLimitInRange(current_limit)
    THEN Rejects(<<"Current limit must be between ", "0", " and ", "60.1000",
                   " A, got ">> \o FloatRepr(current_limit))
    ELSE IF ~VoltageLimitInRange(voltage_limit)
    THEN Rejects(<<"Voltage limit must be between ", "0.1000", " and ", "5.0000",
                   " V, got ">> \o FloatRepr(voltage_limit))
    ELSE IF ~RateLimitInRange(rate_limit)
    THEN Rejects(<<"Rate limit must be between ", "0.0001", " and ", "99.999",
                   " A/s, got ">> \o FloatRepr(rate_limit))
    ELSE Sends(<<"L", "I", "M", "I", "T", " ">> \o FloatRepr(current_limit) \o <<",", " ">>
               \o FloatRepr(voltage_limit) \o <<",", " ">>
               \o FloatRepr(rate_limit), TRUE)

start_ramp == Sends(<<"R", "A", "M", "P">>, FALSE)

stop_ramp == Sends(<<"S", "T", "O", "P">>, FALSE)

get_identification == Sends(<<"*", "I", "D", "N", "?">>, FALSE)

get_error_status == Sends(<<"E", "R", "S", "T", "R", "?">>, FALSE)

get_baud_rate == Sends(<<"B", "A", "U", "D", "?">>, FALSE)

\* The strings the raw-command escape hatch is tried with: a settable
\* parameter out of its range, and a string with a character outside ASCII.
RawCommands == << <<"S", "E", "T", "V", " ", "9">>, <<"R", "A", "M", "P", "0x80">> >>

\* send_command with the compliance-voltage range check applied to SETV.
send_command_validated(command) ==
    IF Len(command) >= 4 /\ SubSeq(command, 1, 4) = <<"S", "E", "T", "V">>
    THEN Rejects(<<"Compliance voltage must be between ", "0.1", " and ", "5.0",
                   " V, got ">> \o SubSeq(command, 5, Len(command)))
    ELSE Sends(command, FALSE)

send_command(command) == Sends(command, FALSE)

\* ------------------------------------------------ what a call gives back

\* A query that hands back whatever send_command returned.
query_result_raw(response) == Returned(response)

\* The last lines of every plain query (get_field, get_current, ...): None
\* and the empty string both become "NO_RESPONSE".
query_result(response) ==
    IF response = None \/ response = Str(<<>>)
    THEN Returned(Str(NO_RESPONSE))
    ELSE Returned(response)

HardwareConditions ==
    << [mask |-> 32, name |-> "DAC Processor Not Responding"],
       [mask |-> 16, name |-> "Output Control Failure"],
       [mask |-> 8, name |-> "Output Over Voltage"],
       [mask |-> 4, name |-> "Output Over Current"],
       [mask |-> 2, name |-> "Low Line Voltage"],
       [mask |-> 1, name |-> "Temperature Fault"] >>

OperationalConditions ==
    << [mask |-> 64, name |-> "Magnet Discharging Through Crowbar"],
       [mask |-> 32, name |-> "Magnet Quench Detected"],
       [mask |-> 16, name |-> "Remote Inhibit Detected"],
       [mask |-> 8, name |-> "Temperature High"],
       [mask |-> 4, name |-> "High Line Voltage"],
       [mask |-> 2, name |-> "External Current Program Error"],
       [mask |-> 1, name |-> "Calibration Error"] >>

PshConditions ==
    << [mask |-> 2, name |-> "PSH Short Circuit"],
       [mask |-> 1, name |-> "PSH Open Circuit"] >>

\* One "    - <name>" line per condition whose bit is set, in the code's order.
RECURSIVE ConditionLines(_, _)
ConditionLines(value, conditions) ==
    IF conditions = <<>> THEN <<>>
    ELSE (IF BitSet(value, Head(conditions).mask)
          THEN << <<"    - ", Head(conditions).name>> >> ELSE <<>>)
         \o ConditionLines(value, Tail(conditions))

RegisterLines(title, value, conditions) ==
    IF value = 0 THEN << <<title, "None">> >>
    ELSE << <<title>> \o IntRepr(value) >> \o ConditionLines(value, conditions)

\* The try block of get_error_status: the three-way unpacking of the split
\* and each int() raise ValueError.
error_status_try(response) ==
    LET parts == Split(response)
    IN  IF Len(parts) # 3
        THEN Raised("ValueError", <<"unpack">>)
        ELSE IF \E i \in 1..3 : ~IsIntLiteral(parts[i])
        THEN Raised("ValueError", <<"invalid literal for int()">>)
        ELSE Returned(Str(Join(
                 << <<"Error Status Register:">> >>
                 \o RegisterLines("  Hardware Errors: ", IntValue(parts[1]),
                                  HardwareConditions)
                 \o RegisterLines("  Operational Errors: ", IntValue(parts[2]),
                                  OperationalConditions)
                 \o RegisterLines("  PSH Errors: ", IntValue(parts[3]),
                                  PshConditions), LF)))

\* A clause that catches IndexError only.
except_IndexError(exc) == exc = "IndexError"

\* except (ValueError, IndexError)
error_status_except(exc) == exc \in {"ValueError", "IndexError"}

get_error_status_result(response) ==
    IF response = None \/ response = Str(<<>>)
    THEN Returned(Str(NO_RESPONSE))
    ELSE LET r == error_status_try(response.s)
         IN  IF r.kind = "raise" /\ error_status_except(r.exc)
             THEN Returned(Str(<<"Raw error status: ">> \o response.s))
             ELSE r

\* ------------------------------------------------------------ operations

PlainQueries ==
    {"get_quench_detect", "get_ramp_rate", "get_field", "get_voltage",
     "get_current", "get_limits", "get_compliance_voltage",
     "get_identification", "get_baud_rate"}

Queries == PlainQueries \cup {"get_error_status"}

Setters ==
    {"set_quench_detect", "set_quench_step_limit", "set_quench_detection",
     "set_ramp_rate", "set_current", "set_compliance_voltage", "set_limits",
     "start_ramp", "stop_ramp"}

Ops == Queries \cup Setters \cup {"send_command"}

\* The readings the polling logger takes, and what the CLI invocation that
\* runs beside it asks for (--start-ramp --get-current).
LoggerOps == {"get_ramp_rate", "get_current", "get_voltage", "get_field"}

CliOps == {"start_ramp", "get_current"}

OpsOf(r) ==
    CASE r = "driver" -> Ops
      [] r = "logger" -> LoggerOps
      [] r = "cli" -> CliOps
      [] OTHER -> {}

\* The arguments each operation is tried with, floats in ten-thousandths:
\* both sides of every edge of every range check.
ArgsOf(op) ==
    CASE op = "set_current" -> {<<125000>>, <<10000000>>}
      [] op = "set_ramp_rate" -> {<<1000>>, <<10000000>>}
      [] op = "set_compliance_voltage" ->
             {<<999>>, <<1000>>, <<50000>>, <<50001>>}
      [] op = "set_limits" ->
             {<<c, v, r>> : c \in {-1, 0, 601000, 601001},
                            v \in {999, 1000, 50000, 50001},
                            r \in {0, 1, 999990, 999991}}
      [] op = "set_quench_detect" -> {<<0>>, <<1>>}
      [] op = "set_quench_step_limit" -> {<<500>>, <<10000000>>}
      [] op = "set_quench_detection" -> {<<1, 500>>}
      [] op = "send_command" -> {<<i>> : i \in 1..Len(RawCommands)}
      [] OTHER -> {<<>>}

\* What the operation op does with the arguments a before any I/O.
Prepare(op, a) ==
    CASE op = "get_quench_detect" -> get_quench_detect
      [] op = "set_quench_detect" -> set_quench_detect(a[1])
      [] op = "set_quench_step_limit" -> set_quench_step_limit(a[1])
      [] op = "set_quench_detection" -> set_quench_detection(a[1], a[2])
      [] op = "get_ramp_rate" -> get_ramp_rate
      [] op = "set_ramp_rate" -> set_ramp_rate(a[1])
      [] op = "get_field" -> get_field
      [] op = "get_voltage" -> get_voltage
      [] op = "get_current" -> get_current
      [] op = "set_current" -> set_current(a[1])
      [] op = "get_limits" -> get_limits
      [] op = "get_compliance_voltage" -> get_compliance_voltage
      [] op = "set_compliance_voltage" -> set_compliance_voltage(a[1])
      [] op = "set_limits" -> set_limits(a[1], a[2], a[3])
      [] op = "start_ramp" -> start_ramp
      [] op = "stop_ramp" -> stop_ramp
      [] op = "get_identification" -> get_identification
      [] op = "get_error_status" -> get_error_status
      [] op = "get_baud_rate" -> get_baud_rate
      [] op = "send_command" -> send_command(RawCommands[a[1]])

\* What the operation op gives its caller once send_command returned response.
Result(op, response) ==
    CASE op \in PlainQueries -> query_result(response)
      [] op = "get_error_status" -> get_error_status_result(response)
      [] OTHER -> Returned(response)

\* ----------------------------------------------------------------- state

VARIABLES
    role,       \* caller -> "driver", "logger", "cli", or "off" (no such process)
    is_open,    \* caller -> whether its serial connection (self.ser) is open
    call,       \* caller -> its call in progress, or the last one it made
    inbuf,      \* the serial port's input buffer: the lines received, unread
    pending,    \* commands the instrument received and has not answered yet
    closes,     \* caller -> how many times self.ser.close() was called
    proc,       \* caller -> where its program (CLI invocation, logger run) stands
    files,      \* the ramps directory: file index -> the file, if it exists
    dec,        \* a response handed to a decode, and what the decode gave back
    instrument  \* "on", or "off": the instrument is switched off and never answers

\* The variables the transport steps of send_command leave alone.
prog_vars == <<closes, proc, files, dec, instrument>>

vars == <<role, is_open, call, inbuf, pending, closes, proc, files, dec, instrument>>

\* The lines the instrument answers with: a reading, an empty line, an error
\* status, text with a leading blank and a byte that is not ASCII, and three
\* fields of which one is no integer.
InstrumentLines ==
    { <<"+", "1", "2", ".", "5">> \o <<CR, LF>>,
      <<CR, LF>>,
      <<"5", ",", "0", ",", "0">> \o <<CR, LF>>,
      <<" ">> \o <<"g", "a", "r", "b", "a", "g", "e">> \o <<"0x80", CR, LF>>,
      <<"5", ",", "0", ".", "5", ",", "0">> \o <<CR, LF>> }

NoResult == [kind |-> "none", val |-> None, exc |-> "", msg |-> <<>>]

\* A caller's call.  pc is where it stands in send_command ("idle": not in a
\* call, "done": the call is over and result is what the caller gets); ev
\* are the transport calls it made so far; rd, raw, src and old
\* tell how its read ended, what it read, whose reply that was and whether
\* the line was in the buffer before the call began; flushed tells whether
\* the reset discarded anything; intruded whether another caller reset or
\* wrote between this call's write and its read.
IdleCall ==
    [pc |-> "idle", op |-> "none", args |-> <<>>, cmd |-> <<>>,
     checked |-> FALSE, ev |-> <<>>, rd |-> "none", raw |-> <<>>,
     src |-> "none", old |-> FALSE, flushed |-> FALSE, intruded |-> FALSE,
     resp |-> None, result |-> NoResult]

Event(t, ok, bytes) == [t |-> t, ok |-> ok, bytes |-> bytes]

\* A program: pc is where it stands; client tells whether its name for the
\* PowerController is bound; exc is the exception on its way up; name is the
\* index of csv_filename (-1 before it is chosen); iter counts the
\* iterations of the polling loop begun; got is the text of the reading
\* queried last and cut tells whether a signal cut its decode short; vals
\* are the readings decoded in this iteration;
\* ramp_data are the rows kept in memory; signalled tells whether an
\* interrupt signal was delivered, and late whether a query was issued after
\* it.  asked are the options a CLI invocation was given that call a
\* setter, in the order main handles them; todo are those main has not come
\* to yet; log tells how each call main made ended.
Program(pc, client) ==
    [pc |-> pc, client |-> client, exc |-> "none", name |-> -1, iter |-> 0,
     got |-> None, cut |-> FALSE, vals |-> <<>>, ramp_data |-> <<>>, signalled |-> FALSE,
     late |-> FALSE, asked |-> <<>>, todo |-> <<>>, log |-> <<>>]

\* No program: the caller is code that holds a constructed PowerController
\* and calls its operations, or does not exist.
LibraryUser == Program("lib", "bound")

\* The most files a day's directory holds.
MaxFiles == 3

FileNames == 0..(MaxFiles - 1)

\* A name that names no file.
NoFile == [exists |-> FALSE, rows |-> <<>>, users |-> {}]

\* Nothing was handed to a decode.
NoDecode == [kind |-> "none", values |-> <<>>, response |-> None, result |-> NoResult]

Init ==
    /\ role = [c \in Callers |-> IF c = 1 THEN "driver" ELSE "off"]
    /\ is_open = [c \in Callers |-> role[c] # "off"]
    /\ call = [c \in Callers |-> IdleCall]
    /\ inbuf = <<>>
    /\ pending = <<>>
    /\ closes = [c \in Callers |-> 0]
    /\ proc = [c \in Callers |-> LibraryUser]
    /\ files = [n \in FileNames |-> NoFile]
    /\ dec = NoDecode
    /\ instrument = "on"

\* The polling logger and a CLI invocation, each with its own connection to
\* the same port.
InitConcurrent ==
    /\ role = [c \in Callers |-> IF c = 1 THEN "logger" ELSE "cli"]
    /\ is_open = [c \in Callers |-> TRUE]
    /\ call = [c \in Callers |-> IdleCall]
    /\ inbuf = <<>>
    /\ pending = <<>>
    /\ closes = [c \in Callers |-> 0]
    /\ proc = [c \in Callers |-> LibraryUser]
    /\ files = [n \in FileNames |-> NoFile]
    /\ dec = NoDecode
    /\ instrument = "on"

\* Replies to the commands caller c wrote before now answer an earlier
\* command; the lines in the buffer were there before c's new call.
Age(items, c) ==
    [i \in 1..Len(items) |->
        IF items[i].owner = c THEN [items[i] EXCEPT !.stale = TRUE]
        ELSE items[i]]

MarkOld(items, c) ==
    [i \in 1..Len(items) |-> [items[i] EXCEPT !.old = @ \cup {c}]]

\* A caller calls a public operation.  The operation raises before any I/O,
\* or enters send_command with its command.
Invoke(c) ==
    /\ role[c] # "off"
    /\ call[c].pc = "idle"
    /\ \E op \in OpsOf(role[c]) : \E a \in ArgsOf(op) :
        LET p == Prepare(op, a)
        IN  IF p.ok
            THEN /\ call' = [call EXCEPT ![c] =
                       [IdleCall EXCEPT !.pc = "reset", !.op = op, !.args = a,
                                        !.cmd = p.cmd, !.checked = p.checked]]
                 /\ inbuf' = MarkOld(Age(inbuf, c), c)
                 /\ pending' = Age(pending, c)
            ELSE /\ call' = [call EXCEPT ![c] =
                       [IdleCall EXCEPT !.pc = "done", !.op = op, !.args = a,
                                        !.result = Raised("ValueError", p.msg)]]
                 /\ UNCHANGED <<inbuf, pending>>
    /\ UNCHANGED <<role, is_open>>
    /\ UNCHANGED prog_vars

\* A clause that catches timeouts only.
except_SerialTimeoutException(exc) == exc = "SerialTimeoutException"

\* except Exception: every exception but KeyboardInterrupt and SystemExit.
except_Exception(exc) == exc \notin {"KeyboardInterrupt", "SystemExit"}

\* A send_command that goes on to its read after a failed transport call.
FailedContinues(k, exc, events) ==
    [k EXCEPT !.pc = "read", !.ev = k.ev \o events]

\* send_command ends in its except clause (print, return None) when the
\* clause catches exc, and lets exc through otherwise.
Failed(k, exc, events) ==
    [k EXCEPT !.pc = "done", !.ev = k.ev \o events, !.rd = "fault",
              !.resp = None,
              !.result = IF except_Exception(exc) THEN Result(k.op, None)
                         ELSE Raised(exc, <<>>)]

\* Another caller has written its command and not read the answer yet.
Intrude(k, c) ==
    [d \in Callers |->
        IF d # c /\ k[d].pc \in {"sleep", "read"}
        THEN [k[d] EXCEPT !.intruded = TRUE] ELSE k[d]]

\* A reset that discards nothing.
KeepBuffer(buffer) == buffer

\* self.ser.reset_input_buffer(): everything unread is discarded.
Discard(buffer) == <<>>

reset_input_buffer(c) ==
    /\ call[c].pc = "reset"
    /\ \/ /\ ~is_open[c]
          /\ call' = [call EXCEPT ![c] =
                Failed(@, "PortNotOpenError", <<Event("reset", FALSE, <<>>)>>)]
          /\ UNCHANGED inbuf
       \/ /\ is_open[c]
          /\ call' = [call EXCEPT ![c] =
                Failed(@, "SerialException", <<Event("reset", FALSE, <<>>)>>)]
          /\ UNCHANGED inbuf
       \/ /\ is_open[c]
          /\ inbuf' = Discard(inbuf)
          /\ call' = [Intrude(call, c) EXCEPT ![c] =
                [@ EXCEPT !.pc = "write", !.flushed = (inbuf # <<>>),
                          !.ev = Append(@, Event("reset", TRUE, <<>>))]]
    /\ UNCHANGED <<role, is_open, pending>>
    /\ UNCHANGED prog_vars

\* The line ended with LF alone.
TerminatedLF(command) == command \o <<LF>>

\* (command + '\r\n')
Terminated(command) == command \o <<CR, LF>>

\* str.encode('ascii') raises UnicodeEncodeError on a character outside ASCII.
Encodable(text) == \A i \in 1..Len(text) : IsAscii(text[i])

\* self.ser.write((command + '\r\n').encode('ascii')): one write of the
\* whole line.  An instrument that is still busy ignores the command.
write(c) ==
    /\ call[c].pc = "write"
    /\ \/ /\ ~Encodable(Terminated(call[c].cmd))
          /\ call' = [call EXCEPT ![c] = Failed(@, "UnicodeEncodeError", <<>>)]
          /\ UNCHANGED pending
       \/ /\ Encodable(Terminated(call[c].cmd))
          /\ call' = [call EXCEPT ![c] =
                Failed(@, "SerialException",
                       <<Event("write", FALSE, Terminated(call[c].cmd))>>)]
          /\ UNCHANGED pending
       \/ /\ Encodable(Terminated(call[c].cmd))
          /\ call' = [Intrude(call, c) EXCEPT ![c] =
                [@ EXCEPT !.pc = "sleep",
                          !.ev = Append(@, Event("write", TRUE,
                                                 Terminated(call[c].cmd)))]]
          /\ pending' = IF Len(pending) < MaxPending
                        THEN Append(pending, [owner |-> c, stale |-> FALSE])
                        ELSE pending
    /\ UNCHANGED <<role, is_open, inbuf>>
    /\ UNCHANGED prog_vars

\* time.sleep(0.2)
sleep(c) ==
    /\ call[c].pc = "sleep"
    /\ call' = [call EXCEPT ![c] =
          [@ EXCEPT !.pc = "read", !.ev = Append(@, Event("sleep", TRUE, <<>>))]]
    /\ UNCHANGED <<role, is_open, inbuf, pending>>
    /\ UNCHANGED prog_vars

\* Whose reply a line is, seen from caller c.
Source(item, c) ==
    IF item.owner # c THEN "other" ELSE IF item.stale THEN "stale" ELSE "own"

\* send_command's return after a read of the bytes raw.
Received(k, rd, raw, src, old) ==
    LET response == Str(Strip(Decode(raw)))
    IN  [k EXCEPT !.pc = "done", !.rd = rd, !.raw = raw, !.src = src,
                  !.old = old, !.resp = response,
                  !.ev = Append(@, Event("read", TRUE, raw)),
                  !.result = Result(k.op, response)]

\* self.ser.readline().decode('ascii', errors='ignore').strip(): the next
\* line of the buffer, or no bytes once the 2 s timeout passed with nothing
\* received.
readline(c) ==
    /\ call[c].pc = "read"
    /\ \/ /\ call' = [call EXCEPT ![c] =
                Failed(@, "SerialException", <<Event("read", FALSE, <<>>)>>)]
          /\ UNCHANGED inbuf
       \/ /\ inbuf = <<>>
          /\ call' = [call EXCEPT ![c] =
                Received(@, "timeout", <<>>, "none", FALSE)]
          /\ UNCHANGED inbuf
       \/ /\ inbuf # <<>>
          /\ call' = [call EXCEPT ![c] =
                Received(@, "line", Head(inbuf).raw, Source(Head(inbuf), c),
                         c \in Head(inbuf).old)]
          /\ inbuf' = Tail(inbuf)
    /\ UNCHANGED <<role, is_open, pending>>
    /\ UNCHANGED prog_vars

\* The caller takes what the call gave back and is ready for its next call.
Return(c) ==
    /\ call[c].pc = "done"
    /\ call' = [call EXCEPT ![c] = IdleCall]
    /\ UNCHANGED <<role, is_open, inbuf, pending>>
    /\ UNCHANGED prog_vars

\* A close() that calls self.ser.close() whatever the connection's state.
SerCloseCallsUnguarded(has_ser, open) == 1

\* if hasattr(self, 'ser') and self.ser.is_open: self.ser.close()
\* How many times close() calls self.ser.close().
SerCloseCalls(has_ser, open) == IF has_ser /\ open THEN 1 ELSE 0

\* The connection after close(): closed, as it was or by self.ser.close().
Closed(open) == FALSE

\* A caller holding the client calls close().
close(c) ==
    /\ role[c] # "off"
    /\ proc[c].pc = "lib"
    /\ call[c].pc = "idle"
    /\ is_open' = [is_open EXCEPT ![c] = Closed(is_open[c])]
    /\ closes' = [closes EXCEPT ![c] = @ + SerCloseCalls(TRUE, is_open[c])]
    /\ UNCHANGED <<role, call, inbuf, pending, proc, files, dec, instrument>>

\* The instrument answers the oldest command it holds, at a time of its own.
InstrumentReply ==
    /\ instrument = "on"
    /\ pending # <<>>
    /\ Len(inbuf) < MaxInbuf
    /\ \E line \in InstrumentLines :
          inbuf' = Append(inbuf, [owner |-> Head(pending).owner,
                                  stale |-> Head(pending).stale,
                                  old |-> {}, raw |-> line])
    /\ pending' = Tail(pending)
    /\ UNCHANGED <<role, is_open, call>>
    /\ UNCHANGED prog_vars

\* The instrument does not acknowledge the command.
InstrumentSilent ==
    /\ pending # <<>>
    /\ pending' = Tail(pending)
    /\ UNCHANGED <<role, is_open, call, inbuf>>
    /\ UNCHANGED prog_vars

Next ==
    \/ \E c \in Callers : Invoke(c)
    \/ \E c \in Callers : reset_input_buffer(c)
    \/ \E c \in Callers : write(c)
    \/ \E c \in Callers : sleep(c)
    \/ \E c \in Callers : readline(c)
    \/ \E c \in Callers : Return(c)
    \/ \E c \in Callers : close(c)
    \/ InstrumentReply
    \/ InstrumentSilent

\* One driver using the client, one call after the other.
Spec == Init /\ [][Next]_vars

\* The polling logger and a CLI invocation on the same port.
SpecConcurrent == InitConcurrent /\ [][Next]_vars

\* ------------------------------------------------- the decodes, on their own

\* Register values an ERSTR? answer carries: no bit, single bits, several
\* bits, bits no condition is assigned to, and a negative number.
HardwareValues == {0, 1, 2, 4, 5, 8, 16, 32, 63, 64, -1}

OperationalValues == {0, 1, 3, 64, 127, 128}

PshValues == {0, 1, 2, 3, 4}

\* What the instrument puts between the commas: the digits, or the digits
\* with blanks around them.
FieldTexts(value) == {IntRepr(value), <<" ">> \o IntRepr(value) \o <<" ">>}

\* Answers of three integers.  send_command has stripped the answer, so the
\* first field has no blank before it and the last none after it.
ThreeIntegerResponses ==
    UNION {{[kind |-> "integers", values |-> v,
             response |-> Str(IntRepr(v[1]) \o <<",">> \o f \o <<",">>
                              \o IntRepr(v[3])),
             result |-> NoResult] : f \in FieldTexts(v[2])} :
           v \in HardwareValues \X OperationalValues \X PshValues}

\* Fields that are no integers, and one that is.
BadFields == {<<"x">>, <<"0", ".", "5">>, <<>>, <<"5">>}

\* Answers that are not three integers: text without a comma, one, two, or
\* four fields, and three fields of which at least one is no integer.
MalformedTexts ==
    {<<"g", "a", "r", "b", "a", "g", "e">>, <<"5">>, <<"0", ".", "5">>, <<"5", ",", "0", ".", "5", ",", "0">>}
    \cup {a \o <<",">> \o b : a, b \in BadFields}
    \cup {a \o <<",">> \o b \o <<",">> \o c : a, b \in BadFields,
                                               c \in BadFields \ {<<"5">>}}
    \cup {<<"5", ",">> \o a \o <<",">> \o b \o <<",", "0">> : a, b \in BadFields}

MalformedResponses ==
    {[kind |-> "malformed", values |-> <<>>, response |-> Str(t),
      result |-> NoResult] : t \in {u \in MalformedTexts : u # <<>> /\ Strip(u) = u}}

\* get_error_status, from the response send_command returned.
DecodeErrorStatus ==
    /\ dec.kind \in {"integers", "malformed"}
    /\ dec.result = NoResult
    /\ dec' = [dec EXCEPT !.result = get_error_status_result(dec.response)]
    /\ UNCHANGED <<role, is_open, call, inbuf, pending, closes, proc, files,
                   instrument>>

\* What get_quench_detect returned to the CLI: two fields, one field, three,
\* a status that is neither 0 nor 1, blanks around the fields, text, and the
\* marker of no response.
QuenchTexts ==
    {<<"1", ",", "0", ".", "0", "5", "0", "0">>, <<"0", ",", "0", ".", "0", "5", "0", "0">>, <<"0">>, <<"1">>, <<"1", ",", "0", ".", "0", "5", "0", "0", ",", "7">>, <<"2", ",", "0", ".", "0", "5", "0", "0">>, <<"1", ",", " ", "0", ".", "0", "5", "0", "0">>,
     <<"g", "a", "r", "b", "a", "g", "e">>, <<",">>, NO_RESPONSE}

QuenchResponses ==
    {[kind |-> "quench", values |-> <<>>, response |-> Str(t),
      result |-> NoResult] : t \in QuenchTexts}

\* What get_limits returned to the CLI: three numbers, a field that is no
\* number, two and four fields, text, and the marker of no response.
LimitsTexts ==
    {<<"6", "0", ".", "1", ",", "5", ".", "0", ",", "0", ".", "5">>, <<"+", "6", "0", ".", "1", "0", "0", "0", ",", "+", "5", ".", "0", "0", "0", "0", ",", "+", "0", ".", "5", "0", "0", "0">>, <<"6", "0", ".", "1", ",", " ", "5", ".", "0", ",", " ", "0", ".", "5">>,
     <<"6", "0", ".", "1", ",", "a", "b", "c", ",", "0", ".", "5">>, <<"a", ",", "b", ",", "c">>, <<"6", "0", ".", "1", ",", ",", "0", ".", "5">>, <<"6", "0", ".", "1", ",", "5", ".", "0">>, <<"1", ",", "2", ",", "3", ",", "4">>, <<"g", "a", "r", "b", "a", "g", "e">>,
     NO_RESPONSE}

LimitsResponses ==
    {[kind |-> "limits", values |-> <<>>, response |-> Str(t),
      result |-> NoResult] : t \in LimitsTexts}

\* The lines main prints for --quench-status once get_quench_detect returned
\* quench: the text as received, and, when the split gives two fields or
\* more, the status if it is '1' or '0' and the step limit.
quench_status(quench) ==
    LET parts == Split(quench)
        status == Strip(parts[1])
        step_limit == Strip(parts[2])
    IN  << <<"Quench detection: ">> \o quench >>
        \o (IF quench # <<>> /\ quench # NO_RESPONSE /\ Len(parts) >= 2
            THEN (IF status = <<"1">> THEN << <<"Quench Detection: ON">> >>
                  ELSE IF status = <<"0">> THEN << <<"Quench Detection: OFF">> >>
                  ELSE <<>>)
                 \o << <<"Step Limit: ">> \o step_limit \o <<" A/s">> >>
            ELSE <<>>)

\* The try block of the limits decode: the three-way unpacking of the split
\* raises ValueError unless there are three fields.
limits_try(limits) ==
    LET parts == Split(limits)
    IN  IF Len(parts) # 3 THEN Raised("ValueError", <<"unpack">>)
        ELSE Returned(Str(Join(
                 << <<"Current limit: ">> \o Strip(parts[1]) \o <<" A">>,
                    <<"Voltage limit: ">> \o Strip(parts[2]) \o <<" V">>,
                    <<"Rate limit: ">> \o Strip(parts[3]) \o <<" A/s">> >>, LF)))

\* except ValueError
except_ValueError(exc) == exc = "ValueError"

\* The lines main prints for --get-max-limits once get_limits returned
\* limits.
limits_status(limits) ==
    IF limits # <<>> /\ limits # NO_RESPONSE
    THEN LET r == limits_try(limits)
         IN  IF r.kind = "raise" /\ except_ValueError(r.exc)
             THEN Returned(Str(<<"Limits: ">> \o limits))
             ELSE r
    ELSE Returned(Str(<<"No response from device">>))

\* main's --quench-status block, from what get_quench_detect returned.
DecodeQuenchStatus ==
    /\ dec.kind = "quench"
    /\ dec.result = NoResult
    /\ dec' = [dec EXCEPT !.result =
          Returned(Str(Join(quench_status(dec.response.s), LF)))]
    /\ UNCHANGED <<role, is_open, call, inbuf, pending, closes, proc, files,
                   instrument>>

\* main's --get-max-limits block, from what get_limits returned.
DecodeLimits ==
    /\ dec.kind = "limits"
    /\ dec.result = NoResult
    /\ dec' = [dec EXCEPT !.result = limits_status(dec.response.s)]
    /\ UNCHANGED <<role, is_open, call, inbuf, pending, closes, proc, files,
                   instrument>>

\* A response of the instrument is handed to one of the decodes.
InitDecode ==
    /\ role = [c \in Callers |-> "off"]
    /\ is_open = [c \in Callers |-> FALSE]
    /\ call = [c \in Callers |-> IdleCall]
    /\ inbuf = <<>>
    /\ pending = <<>>
    /\ closes = [c \in Callers |-> 0]
    /\ proc = [c \in Callers |-> LibraryUser]
    /\ files = [n \in FileNames |-> NoFile]
    /\ dec \in ThreeIntegerResponses \cup MalformedResponses
               \cup QuenchResponses \cup LimitsResponses
    /\ instrument = "on"

NextDecode ==
    \/ DecodeErrorStatus
    \/ DecodeQuenchStatus
    \/ DecodeLimits

SpecDecode == InitDecode /\ [][NextDecode]_vars

\* ------------------------------------------------ the CLI and the logger

\* The most iterations of the polling loop a run makes.
MaxRecords == 2

\* A reading of the record: a float, or None.
Absent == [ok |-> FALSE, x |-> 0]

Float(x) == [ok |-> TRUE, x |-> x]

\* The four readings of get_ramp_data, in its order.
ReadingOps == <<"get_ramp_rate", "get_current", "get_voltage", "get_field">>

\* What a query operation can return: whatever send_command returns, mapped
\* by the operation.
QueryResultsWhen(op, state) ==
    {Result(op, None)}
    \cup {Result(op, Str(Strip(Decode(raw)))) :
             raw \in (IF state = "on" THEN InstrumentLines ELSE {}) \cup {<<>>}}

\* The same, worked out once for each reading and state of the instrument.
QueryTable ==
    [idx \in 1..4 |->
        [state \in {"on", "off"} |-> QueryResultsWhen(ReadingOps[idx], state)]]

QueryResults(idx) == QueryTable[idx][instrument]

\* The text get_ramp_data hands to float(): '+' removed, and for the field
\* reading 'E+00' removed from what is left.
ReadingText(idx, text) ==
    IF idx = 4 THEN Remove(Remove(text, <<"+">>), <<"E", "+", "0", "0">>)
    ELSE Remove(text, <<"+">>)

\* A clause that catches nothing.
except_none(exc) == FALSE

\* except: (no class named) catches every exception, KeyboardInterrupt too.
except_bare(exc) == TRUE

\* The decode with no try around it: what float() raises leaves the statement.
decode_reading_no_try(idx, text, signal) ==
    IF signal THEN Raised("KeyboardInterrupt", <<>>)
    ELSE IF text = NO_RESPONSE THEN Returned(Absent)
    ELSE IF IsFloatLiteral(ReadingText(idx, text))
    THEN Returned(Float(FloatValue(ReadingText(idx, text))))
    ELSE Raised("ValueError", <<>>)

\* try: x = float(x_str.replace('+', '')) if x_str != "NO_RESPONSE" else None
\* except: x = None
\* signal tells whether an interrupt arrives while the statement runs.
decode_reading(idx, text, signal) ==
    LET raised == IF signal THEN "KeyboardInterrupt"
                  ELSE IF text = NO_RESPONSE THEN "none"
                  ELSE IF IsFloatLiteral(ReadingText(idx, text)) THEN "none"
                  ELSE "ValueError"
    IN  IF raised = "none"
        THEN Returned(IF text = NO_RESPONSE THEN Absent
                      ELSE Float(FloatValue(ReadingText(idx, text))))
        ELSE IF except_bare(raised) THEN Returned(Absent)
        ELSE Raised(raised, <<>>)

\* The texts a reading can be.
ReadingTexts ==
    UNION {{r.val.s : r \in QueryTable[idx]["on"]} : idx \in 1..4}

\* decode_reading, worked out once for each reading, text and signal.
DecodeTable ==
    [idx \in 1..4 |-> [text \in ReadingTexts |->
        [signal \in BOOLEAN |-> decode_reading(idx, text, signal)]]]

\* A row of the log: the record of iteration iter of run c.
Row(c, iter, vals) == [by |-> c, iter |-> iter, vals |-> vals]

\* _get_next_csv_filename: the base name if no such file exists, else the
\* first numbered name no file has.
HasFreeName(f) == \E n \in FileNames : ~f[n].exists

\* A selection that takes the last name no file has.
NextNameLast(f) ==
    CHOOSE n \in FileNames :
        ~f[n].exists /\ \A m \in (n + 1)..(MaxFiles - 1) : f[m].exists

NextName(f) ==
    CHOOSE n \in FileNames : ~f[n].exists /\ \A m \in 0..(n - 1) : f[m].exists

\* open(name, 'w') and the rows written: the file is created or truncated.
Written(f, c, rows) == [exists |-> TRUE, rows |-> rows, users |-> f.users \cup {c}]

\* open(name, 'a') and one row written: the file is created if missing.
Appended(f, c, row) ==
    [exists |-> TRUE, rows |-> Append(f.rows, row), users |-> f.users \cup {c}]

\* A file an earlier run of the day left.
EarlierFile == [exists |-> TRUE, rows |-> <<Row(0, 1, <<Absent, Absent, Absent, Absent>>)>>,
                users |-> {0}]

\* RampLogger.__init__: the client is constructed (serial.Serial opens the
\* port, or raises SerialException, which leaves __init__ and main) and the
\* file name is chosen.
RampLogger_init(c) ==
    /\ role[c] = "logger"
    /\ proc[c].pc = "start"
    /\ \/ /\ proc' = [proc EXCEPT ![c] =
                [@ EXCEPT !.pc = "crashed", !.exc = "SerialException"]]
          /\ UNCHANGED is_open
       \/ /\ HasFreeName(files)
          /\ proc' = [proc EXCEPT ![c] =
                [@ EXCEPT !.pc = "create", !.client = "bound",
                          !.name = NextName(files)]]
          /\ is_open' = [is_open EXCEPT ![c] = TRUE]
    /\ UNCHANGED <<role, call, inbuf, pending, closes, files, dec, instrument>>

\* self.create_formatted_csv(), then the loop begins.
create_formatted_csv(c) ==
    /\ proc[c].pc = "create"
    /\ files' = [files EXCEPT ![proc[c].name] = Written(@, c, <<>>)]
    /\ proc' = [proc EXCEPT ![c] = [@ EXCEPT !.pc = "query", !.iter = 1]]
    /\ UNCHANGED <<role, is_open, call, inbuf, pending, closes, dec, instrument>>

\* x_str = self.power_controller.get_x(): the next reading is queried.
query_reading(c) ==
    /\ proc[c].pc = "query"
    /\ \E r \in QueryResults(Len(proc[c].vals) + 1) :
          proc' = [proc EXCEPT ![c] =
              [@ EXCEPT !.pc = "decode", !.got = r.val,
                        !.cut = FALSE,
                        !.late = @ \/ proc[c].signalled]]
    /\ UNCHANGED <<role, is_open, call, inbuf, pending, closes, files, dec, instrument>>

\* The reading after the statement that decodes it.
Decoded(p, signal) ==
    LET d == DecodeTable[Len(p.vals) + 1][p.got.s][signal]
    IN  IF d.kind = "return"
        THEN [p EXCEPT !.vals = Append(@, d.val), !.cut = signal,
                       !.signalled = @ \/ signal,
                       !.pc = IF Len(p.vals) = 3 THEN "store" ELSE "query"]
        ELSE [p EXCEPT !.cut = signal, !.signalled = @ \/ signal,
                       !.exc = d.exc,
                       !.pc = IF d.exc = "KeyboardInterrupt" THEN "interrupted"
                              ELSE "failed"]

\* The reading is decoded; after the fourth, get_ramp_data returns the
\* record and format_csv_row makes the row of it.
decode(c) ==
    /\ proc[c].pc = "decode"
    /\ proc' = [proc EXCEPT ![c] = Decoded(@, FALSE)]
    /\ UNCHANGED <<role, is_open, call, inbuf, pending, closes, files, dec, instrument>>

\* self.ramp_data.append(csv_row); self.print_formatted_row(csv_row).  An
\* error nothing in the loop handles (no memory for the row, standard output
\* gone) leaves the loop for the except Exception clause of run.
store_row(c) ==
    /\ proc[c].pc = "store"
    /\ \/ proc' = [proc EXCEPT ![c] =
             [@ EXCEPT !.pc = "append", !.got = None, !.cut = FALSE,
                       !.ramp_data = Append(@, Row(c, proc[c].iter, proc[c].vals))]]
       \/ proc' = [proc EXCEPT ![c] =
             [@ EXCEPT !.pc = "failed", !.exc = "Exception", !.got = None,
                       !.cut = FALSE,
                       !.ramp_data = Append(@, Row(c, proc[c].iter, proc[c].vals))]]
    /\ UNCHANGED <<role, is_open, call, inbuf, pending, closes, files, dec, instrument>>

\* self.append_to_formatted_csv(csv_row)
append_to_formatted_csv(c) ==
    /\ proc[c].pc = "append"
    /\ files' = [files EXCEPT ![proc[c].name] =
          Appended(@, c, Row(c, proc[c].iter, proc[c].vals))]
    /\ proc' = [proc EXCEPT ![c] = [@ EXCEPT !.pc = "sleep"]]
    /\ UNCHANGED <<role, is_open, call, inbuf, pending, closes, dec, instrument>>

\* time.sleep(60) is over and the next iteration begins.
sleep_interval(c) ==
    /\ proc[c].pc = "sleep"
    /\ proc[c].iter < MaxRecords
    /\ proc' = [proc EXCEPT ![c] =
          [@ EXCEPT !.pc = "query", !.iter = @ + 1, !.vals = <<>>]]
    /\ UNCHANGED <<role, is_open, call, inbuf, pending, closes, files, dec, instrument>>

\* An interrupt signal (Ctrl+C) arrives while the logger is in the loop,
\* outside the try of a numeric decode: KeyboardInterrupt is raised in the
\* statement the logger is in (a query, the storing of the row, the file
\* append, the sleep) and reaches the except KeyboardInterrupt clause of run.
interrupt(c) ==
    /\ role[c] = "logger"
    /\ proc[c].pc \in {"query", "store", "append", "sleep"}
    /\ proc' = [proc EXCEPT ![c] =
          [@ EXCEPT !.pc = "interrupted", !.exc = "KeyboardInterrupt",
                    !.signalled = TRUE]]
    /\ UNCHANGED <<role, is_open, call, inbuf, pending, closes, files, dec, instrument>>

\* The signal arrives while the logger is inside the try of a numeric decode.
interrupt_in_decode(c) ==
    /\ role[c] = "logger"
    /\ proc[c].pc = "decode"
    /\ proc' = [proc EXCEPT ![c] = Decoded(@, TRUE)]
    /\ UNCHANGED <<role, is_open, call, inbuf, pending, closes, files, dec, instrument>>

\* The signal arrives in the body of the CLI: it reaches the except
\* KeyboardInterrupt clause of main, and the call it interrupted is abandoned.
interrupt_main(c) ==
    /\ role[c] = "cli"
    /\ proc[c].pc = "body"
    /\ proc' = [proc EXCEPT ![c] = [@ EXCEPT !.pc = "finally", !.signalled = TRUE]]
    /\ call' = [call EXCEPT ![c] = IdleCall]
    /\ UNCHANGED <<role, is_open, inbuf, pending, closes, files, dec, instrument>>

\* except KeyboardInterrupt: the closing messages are printed.
except_KeyboardInterrupt(c) ==
    /\ role[c] = "logger"
    /\ proc[c].pc = "interrupted"
    /\ proc' = [proc EXCEPT ![c] = [@ EXCEPT !.pc = "finally", !.exc = "none"]]
    /\ UNCHANGED <<role, is_open, call, inbuf, pending, closes, files, dec, instrument>>

\* except Exception as e: print; self.save_to_csv(), which opens
\* csv_filename with 'w' and writes the headers and every row of ramp_data.
save_to_csv(c) ==
    /\ role[c] = "logger"
    /\ proc[c].pc = "failed"
    /\ files' = [files EXCEPT ![proc[c].name] = Written(@, c, proc[c].ramp_data)]
    /\ proc' = [proc EXCEPT ![c] = [@ EXCEPT !.pc = "finally", !.exc = "none"]]
    /\ UNCHANGED <<role, is_open, call, inbuf, pending, closes, dec, instrument>>

\* power_controller = PowerController(port=args.port): the port opens, or
\* serial.Serial raises SerialException and main's except clause prints it.
PowerController_init(c) ==
    /\ role[c] = "cli"
    /\ proc[c].pc = "start"
    /\ \/ /\ proc' = [proc EXCEPT ![c] = [@ EXCEPT !.pc = "finally"]]
          /\ UNCHANGED is_open
       \/ /\ proc' = [proc EXCEPT ![c] = [@ EXCEPT !.pc = "body", !.client = "bound"]]
          /\ is_open' = [is_open EXCEPT ![c] = TRUE]
    /\ UNCHANGED <<role, call, inbuf, pending, closes, files, dec, instrument>>

\* The CLI has run the operations it was asked for.
main_body_end(c) ==
    /\ role[c] = "cli"
    /\ proc[c].pc = "body"
    /\ call[c].pc = "idle"
    /\ proc[c].todo = <<>>
    /\ proc' = [proc EXCEPT ![c] = [@ EXCEPT !.pc = "finally"]]
    /\ UNCHANGED <<role, is_open, call, inbuf, pending, closes, files, dec, instrument>>

\* What is raised by the close() of a finally clause: NameError when the
\* name of the client was never bound, else nothing (close() itself raises
\* nothing).
FinallyRaises(client) == IF client = "bound" THEN "none" ELSE "NameError"

\* finally of main: try: power_controller.close() except: pass
\* finally of run: if hasattr(self, 'power_controller'):
\*                     self.power_controller.close()
\* Then the program ends; exc is the exception that left it, if any.
finally(c) ==
    /\ proc[c].pc = "finally"
    /\ LET raised == FinallyRaises(proc[c].client)
           calls == IF raised = "none" THEN SerCloseCalls(TRUE, is_open[c]) ELSE 0
       IN  /\ closes' = [closes EXCEPT ![c] = @ + calls]
           /\ is_open' = [is_open EXCEPT ![c] =
                 IF raised = "none" THEN Closed(@) ELSE @]
           /\ proc' = [proc EXCEPT ![c] =
                 [@ EXCEPT !.pc = "exit",
                           !.exc = IF raised = "none" THEN "none"
                                   ELSE IF role[c] = "cli" /\ except_bare(raised)
                                   THEN "none" ELSE raised]]
    /\ UNCHANGED <<role, call, inbuf, pending, files, dec, instrument>>

\* A program is started: its client is not constructed yet.
NotStarted == Program("start", "unbound")

\* The files earlier runs of the day left: none, the base file, or the base
\* file and one numbered file.
EarlierFiles == {{}, {0}, {0, 1}, {0, 2}}

\* One program on the port: code that holds a client, a CLI invocation, or a
\* logger run.
InitProgram ==
    /\ \E r \in {"driver", "cli", "logger"} :
          /\ role = [c \in Callers |-> IF c = 1 THEN r ELSE "off"]
          /\ is_open = [c \in Callers |-> c = 1 /\ r = "driver"]
          /\ proc = [c \in Callers |->
                IF c = 1 /\ r # "driver" THEN NotStarted ELSE LibraryUser]
    /\ call = [c \in Callers |-> IdleCall]
    /\ inbuf = <<>>
    /\ pending = <<>>
    /\ closes = [c \in Callers |-> 0]
    /\ \E e \in (IF role[1] = "logger" THEN EarlierFiles ELSE {{}}) :
          files = [n \in FileNames |-> IF n \in e THEN EarlierFile ELSE NoFile]
    /\ dec = NoDecode
    /\ instrument = "on"

NextProgram ==
    \/ \E c \in Callers : proc[c].pc \in {"lib", "body"} /\ Invoke(c)
    \/ \E c \in Callers : reset_input_buffer(c)
    \/ \E c \in Callers : write(c)
    \/ \E c \in Callers : sleep(c)
    \/ \E c \in Callers : readline(c)
    \/ \E c \in Callers : Return(c)
    \/ \E c \in Callers : close(c)
    \/ InstrumentReply
    \/ InstrumentSilent
    \/ \E c \in Callers : RampLogger_init(c)
    \/ \E c \in Callers : create_formatted_csv(c)
    \/ \E c \in Callers : query_reading(c)
    \/ \E c \in Callers : decode(c)
    \/ \E c \in Callers : store_row(c)
    \/ \E c \in Callers : append_to_formatted_csv(c)
    \/ \E c \in Callers : sleep_interval(c)
    \/ \E c \in Callers : interrupt(c)
    \/ \E c \in Callers : interrupt_in_decode(c)
    \/ \E c \in Callers : interrupt_main(c)
    \/ \E c \in Callers : except_KeyboardInterrupt(c)
    \/ \E c \in Callers : save_to_csv(c)
    \/ \E c \in Callers : PowerController_init(c)
    \/ \E c \in Callers : main_body_end(c)
    \/ \E c \in Callers : finally(c)

\* A driver, a CLI invocation or a logger run, from start to end.
SpecProgram == InitProgram /\ [][NextProgram]_vars

\* Two logger runs started on the same day, the instrument switched off: the
\* day's directory is empty or holds the files of earlier runs.
InitTwoRuns ==
    /\ role = [c \in Callers |-> "logger"]
    /\ is_open = [c \in Callers |-> FALSE]
    /\ proc = [c \in Callers |-> NotStarted]
    /\ call = [c \in Callers |-> IdleCall]
    /\ inbuf = <<>>
    /\ pending = <<>>
    /\ closes = [c \in Callers |-> 0]
    /\ \E e \in EarlierFiles :
          files = [n \in FileNames |-> IF n \in e THEN EarlierFile ELSE NoFile]
    /\ dec = NoDecode
    /\ instrument = "off"

NextLogger ==
    \/ \E c \in Callers : RampLogger_init(c)
    \/ \E c \in Callers : create_formatted_csv(c)
    \/ \E c \in Callers : query_reading(c)
    \/ \E c \in Callers : decode(c)
    \/ \E c \in Callers : store_row(c)
    \/ \E c \in Callers : append_to_formatted_csv(c)
    \/ \E c \in Callers : sleep_interval(c)
    \/ \E c \in Callers : interrupt(c)
    \/ \E c \in Callers : interrupt_in_decode(c)
    \/ \E c \in Callers : except_KeyboardInterrupt(c)
    \/ \E c \in Callers : save_to_csv(c)
    \/ \E c \in Callers : finally(c)

\* Two logger runs, their steps interleaved in any way.
SpecTwoRuns == InitTwoRuns /\ [][NextLogger]_vars

\* One logger run on a day with no file yet or the base file of an earlier
\* run.
InitLogger ==
    /\ role = [c \in Callers |-> IF c = 1 THEN "logger" ELSE "off"]
    /\ is_open = [c \in Callers |-> FALSE]
    /\ proc = [c \in Callers |-> IF c = 1 THEN NotStarted ELSE LibraryUser]
    /\ call = [c \in Callers |-> IdleCall]
    /\ inbuf = <<>>
    /\ pending = <<>>
    /\ closes = [c \in Callers |-> 0]
    /\ \E e \in {{}, {0}} :
          files = [n \in FileNames |-> IF n \in e THEN EarlierFile ELSE NoFile]
    /\ dec = NoDecode
    /\ instrument = "on"

\* The next statement of the loop of a logger.
LoopStep ==
    \E c \in Callers :
        \/ create_formatted_csv(c)
        \/ query_reading(c)
        \/ decode(c)
        \/ store_row(c)
        \/ append_to_formatted_csv(c)
        \/ sleep_interval(c)

\* The logger keeps running: the statement it has reached is executed, and
\* time.sleep(60) returns.  Signals and errors come when they come.
LoggerRuns == WF_vars(LoopStep)

\* One logger run that is never suspended.
SpecLoggerFair == InitLogger /\ [][NextLogger]_vars /\ LoggerRuns

\* ------------------------------------------------- the options of the CLI

\* The blocks of main that call a setter of the ramp, in the order of the
\* code: --set-compliance-voltage, --set-current, --set-rate, --start-ramp,
\* --set-max-limits.
MainBlocks ==
    <<"set_compliance_voltage", "set_current", "set_ramp_rate", "start_ramp",
      "set_limits">>

\* The values an option is given, floats in ten-thousandths: in range and,
\* where the setter checks a range, out of it.
OptionValues(op) ==
    CASE op = "set_compliance_voltage" -> {<<999>>, <<1000>>}
      [] op = "set_current" -> {<<125000>>}
      [] op = "set_ramp_rate" -> {<<1000>>}
      [] op = "set_limits" -> {<<601000, 50000, 1>>, <<601001, 50000, 1>>}
      [] OTHER -> {<<>>}

Option(op, a) == [op |-> op, a |-> a]

\* The command lines: each option absent or given once, from block i on.
RECURSIVE CommandLines(_)
CommandLines(i) ==
    IF i > Len(MainBlocks) THEN {<<>>}
    ELSE LET rest == CommandLines(i + 1)
         IN  rest \cup {<<Option(MainBlocks[i], a)>> \o r :
                           a \in OptionValues(MainBlocks[i]), r \in rest}

\* How a call of main ended: the command was written, the transport failed
\* before or in the write, or the setter rejected the value.
Logged(op, how) == [op |-> op, how |-> how]

\* The except clause a ValueError of the block's setter reaches: the block's
\* own (--set-max-limits only), or except Exception of main.
BlockCatchesValueError(op) == op = "set_limits"

\* if args.x is not None: response = power_controller.set_x(args.x) : main
\* comes to its next block that was asked for and calls the setter, which
\* enters send_command or raises ValueError.
main_call(c) ==
    /\ role[c] = "cli"
    /\ proc[c].pc = "body"
    /\ call[c].pc = "idle"
    /\ proc[c].todo # <<>>
    /\ LET b == Head(proc[c].todo)
           p == Prepare(b.op, b.a)
       IN  IF p.ok
           THEN /\ call' = [call EXCEPT ![c] =
                      [IdleCall EXCEPT !.pc = "reset", !.op = b.op, !.args = b.a,
                                       !.cmd = p.cmd, !.checked = p.checked]]
                /\ inbuf' = MarkOld(Age(inbuf, c), c)
                /\ pending' = Age(pending, c)
                /\ proc' = [proc EXCEPT ![c] = [@ EXCEPT !.todo = Tail(@)]]
           ELSE /\ proc' = [proc EXCEPT ![c] =
                      [@ EXCEPT !.todo = Tail(@),
                                !.log = Append(@, Logged(b.op, "rejected")),
                                !.pc = IF BlockCatchesValueError(b.op)
                                       THEN "body" ELSE "finally"]]
                /\ UNCHANGED <<call, inbuf, pending>>
    /\ UNCHANGED <<role, is_open, closes, files, dec, instrument>>

\* The setter returned: the block prints its messages and main goes on.
main_return(c) ==
    /\ role[c] = "cli"
    /\ proc[c].pc = "body"
    /\ call[c].pc = "done"
    /\ proc' = [proc EXCEPT ![c] =
          [@ EXCEPT !.log = Append(@, Logged(call[c].op,
                IF \E i \in 1..Len(call[c].ev) :
                       call[c].ev[i].t = "write" /\ call[c].ev[i].ok
                THEN "written" ELSE "failed"))]]
    /\ call' = [call EXCEPT ![c] = IdleCall]
    /\ UNCHANGED <<role, is_open, inbuf, pending, closes, files, dec, instrument>>

\* One CLI invocation with any of the command lines.
InitCli ==
    /\ role = [c \in Callers |-> IF c = 1 THEN "cli" ELSE "off"]
    /\ is_open = [c \in Callers |-> FALSE]
    /\ \E line \in CommandLines(1) :
          proc = [c \in Callers |->
                IF c = 1 THEN [NotStarted EXCEPT !.asked = line, !.todo = line]
                ELSE LibraryUser]
    /\ call = [c \in Callers |-> IdleCall]
    /\ inbuf = <<>>
    /\ pending = <<>>
    /\ closes = [c \in Callers |-> 0]
    /\ files = [n \in FileNames |-> NoFile]
    /\ dec = NoDecode
    /\ instrument = "on"

NextCli ==
    \/ \E c \in Callers : PowerController_init(c)
    \/ \E c \in Callers : main_call(c)
    \/ \E c \in Callers : reset_input_buffer(c)
    \/ \E c \in Callers : write(c)
    \/ \E c \in Callers : sleep(c)
    \/ \E c \in Callers : readline(c)
    \/ \E c \in Callers : main_return(c)
    \/ \E c \in Callers : interrupt_main(c)
    \/ \E c \in Callers : main_body_end(c)
    \/ \E c \in Callers : finally(c)
    \/ InstrumentReply
    \/ InstrumentSilent

\* A CLI invocation from its command line to its end.
SpecCli == InitCli /\ [][NextCli]_vars

\* ---------------------------------------------------------------- claims

\* The write a call made: its events that are writes.
Writes(k) == {i \in 1..Len(k.ev) : k.ev[i].t = "write"}

\* The legal ranges as the rejection messages print them.
RangeTexts ==
    { <<"0.1", "5.0">>, <<"0", "60.1000">>, <<"0.1000", "5.0000">>,
      <<"0.0001", "99.999">> }

\* The last n elements of a sequence.
Suffix(s, n) == SubSeq(s, Len(s) - n + 1, Len(s))

\* C1: a call of set_compliance_voltage or set_limits with an argument out of
\* its range is rejected in the step that makes it, with the offending value
\* and the legal range in the message; that step makes no transport call
\* (no reset, write or read) and leaves the input buffer, the instrument and
\* the connection's open/closed state as they were.
C1_RejectionHasNoSideEffect ==
    [][\A c \in Callers :
        LET k == call'[c]
            a == k.args
            bad == \/ /\ k.op = "set_compliance_voltage"
                      /\ (a[1] < 1000 \/ a[1] > 50000)
                   \/ /\ k.op = "set_limits"
                      /\ \/ a[1] < 0 \/ a[1] > 601000
                         \/ a[2] < 1000 \/ a[2] > 50000
                         \/ a[3] < 1 \/ a[3] > 999990
        IN  (call[c].pc = "idle" /\ k.pc # "idle" /\ bad) =>
              /\ k.pc = "done"
              /\ k.result.kind = "raise"
              /\ k.result.exc = "ValueError"
              /\ <<k.result.msg[2], k.result.msg[4]>> \in RangeTexts
              /\ \E i \in 1..Len(a) :
                    /\ Len(k.result.msg) > Len(FloatRepr(a[i]))
                    /\ Suffix(k.result.msg, Len(FloatRepr(a[i]))) = FloatRepr(a[i])
              /\ k.ev = <<>>
              /\ UNCHANGED <<inbuf, pending, is_open>>]_vars

\* C1 witness: set_compliance_voltage(5.0001) was rejected while a line of an
\* earlier exchange was waiting in the input buffer of the open connection.
C1_Witness ==
    \E c \in Callers :
        /\ call[c].pc = "done"
        /\ call[c].op = "set_compliance_voltage"
        /\ call[c].args = <<50001>>
        /\ call[c].result.exc = "ValueError"
        /\ inbuf # <<>>
        /\ is_open[c]

\* C2 (as claimed): a command of set_current, set_ramp_rate,
\* set_compliance_voltage, set_limits or set_quench_step_limit is written to
\* the transport only after a range check on its argument was performed and
\* passed.
C2_WriteOnlyAfterRangeCheck ==
    \A c \in Callers :
        (/\ call[c].op \in {"set_current", "set_ramp_rate",
                            "set_compliance_voltage", "set_limits",
                            "set_quench_step_limit"}
         /\ Writes(call[c]) # {})
        => call[c].checked

\* C3: set_compliance_voltage(v) is accepted, and SETV v is what it
\* transmits, if and only if 0.1 <= v <= 5.0: 0.1 and 5.0 are accepted,
\* 0.0999 and 5.0001 are rejected without a transport call.
C3_ComplianceVoltageAcceptedIffInRange ==
    \A c \in Callers :
        LET k == call[c]
            v == k.args[1]
            line == <<"S", "E", "T", "V", " ">> \o FloatRepr(v) \o <<CR, LF>>
        IN  (k.op = "set_compliance_voltage" /\ k.pc # "idle") =>
              IF 1000 <= v /\ v <= 50000
              THEN /\ k.result.kind # "raise"
                   /\ \A i \in Writes(k) : k.ev[i].bytes = line
                   /\ (k.pc \in {"sleep", "read"} \/ k.rd \in {"timeout", "line"})
                        => \E i \in Writes(k) : k.ev[i].ok
              ELSE /\ k.pc = "done"
                   /\ k.result.exc = "ValueError"
                   /\ k.ev = <<>>

\* C3 witness: set_compliance_voltage(0.1), the lower edge, transmitted its
\* command and read the instrument's answer.
C3_Witness ==
    \E c \in Callers :
        /\ call[c].op = "set_compliance_voltage"
        /\ call[c].args = <<1000>>
        /\ call[c].pc = "done"
        /\ call[c].rd = "line"
        /\ \E i \in Writes(call[c]) : call[c].ev[i].ok

\* C4: set_limits(current, voltage, rate) is accepted if and only if current
\* is in [0, 60.1], voltage in [0.1, 5.0] and rate in [0.0001, 99.999]; a
\* rejection names the first field out of its range, in the order current,
\* voltage, rate, with that field's value.
C4_LimitsAcceptedIffAllInRange ==
    \A c \in Callers :
        LET k == call[c]
            a == k.args
            curOk == 0 <= a[1] /\ a[1] <= 601000
            voltOk == 1000 <= a[2] /\ a[2] <= 50000
            rateOk == 1 <= a[3] /\ a[3] <= 999990
            m == k.result.msg
        IN  (k.op = "set_limits" /\ k.pc # "idle") =>
              /\ (k.result.exc = "ValueError") <=> ~(curOk /\ voltOk /\ rateOk)
              /\ (k.pc # "done") => (curOk /\ voltOk /\ rateOk)
              /\ ~curOk =>
                    /\ m[1] = "Current limit must be between "
                    /\ Suffix(m, Len(FloatRepr(a[1]))) = FloatRepr(a[1])
              /\ (curOk /\ ~voltOk) =>
                    /\ m[1] = "Voltage limit must be between "
                    /\ Suffix(m, Len(FloatRepr(a[2]))) = FloatRepr(a[2])
              /\ (curOk /\ voltOk /\ ~rateOk) =>
                    /\ m[1] = "Rate limit must be between "
                    /\ Suffix(m, Len(FloatRepr(a[3]))) = FloatRepr(a[3])

\* C4 witness: set_limits(60.1001, 0.0999, 0.0) has all three fields out of
\* range and was rejected.
C4_Witness ==
    \E c \in Callers :
        /\ call[c].op = "set_limits"
        /\ call[c].args = <<601001, 999, 0>>
        /\ call[c].pc = "done"
        /\ call[c].result.exc = "ValueError"

\* C5: every query operation returns a string whatever the device and the
\* transport do (a reply, an empty reply, a read timeout, an I/O fault on the
\* reset, the write or the read, a closed port): no exception escapes, and a
\* read that timed out or was empty gives "NO_RESPONSE".
C5_QueriesAlwaysReturn ==
    \A c \in Callers :
        LET k == call[c]
        IN  (k.pc = "done" /\ k.op \in Queries) =>
              /\ k.result.kind = "return"
              /\ k.result.val.t = "str"
              /\ (k.rd = "timeout" \/ (k.rd = "line" /\ Strip(Decode(k.raw)) = <<>>))
                    => k.result.val = Str(NO_RESPONSE)

\* C5 witness: a query whose read raised an I/O fault after the reset, the
\* write and the settle wait went through.
C5_Witness ==
    \E c \in Callers :
        /\ call[c].pc = "done"
        /\ call[c].op = "get_error_status"
        /\ call[c].rd = "fault"
        /\ Len(call[c].ev) = 4
        /\ call[c].result.kind = "return"

\* C6 (as claimed): what an operation returns after reading a line with
\* nothing but whitespace or a line terminator in it differs from what it
\* returns when the read timed out with nothing received.
C6_TimeoutDistinctFromEmptyLine ==
    \A c \in Callers :
        LET k == call[c]
        IN  (k.pc = "done" /\ k.rd = "line" /\ Strip(Decode(k.raw)) = <<>>)
            => k.result # Result(k.op, Str(Strip(Decode(<<>>))))

\* C7 (as claimed): what an operation returns when the reset, the write or
\* the read raised an I/O fault differs from what it returns when the
\* transaction completed and the instrument was silent.
C7_FaultDistinctFromSilence ==
    \A c \in Callers :
        LET k == call[c]
        IN  (k.pc = "done" /\ k.rd = "fault")
            => k.result # Result(k.op, Str(Strip(Decode(<<>>))))

\* C8 (as claimed): no caller resets the input buffer or writes a command
\* between another caller's write and that caller's read.
C8_AccessSerialized == \A c \in Callers : ~call[c].intruded

\* C9 (as claimed): the line an operation returns is the instrument's reply
\* to the command that operation wrote, never the reply to an earlier one.
C9_NeverAnEarlierReply ==
    \A c \in Callers :
        (call[c].pc = "done" /\ call[c].rd = "line") => call[c].src = "own"

\* C9 (amended): the line an operation returns was never in the input buffer
\* when the operation began: what was unread then is discarded by the reset
\* before the write.
C9_NothingFromBeforeTheReset ==
    \A c \in Callers :
        (call[c].pc = "done" /\ call[c].rd = "line") => ~call[c].old

\* C9 witness: the reset discarded a line of an earlier exchange and the
\* operation then read the reply to its own command.
C9_Witness ==
    \E c \in Callers :
        /\ call[c].pc = "done"
        /\ call[c].flushed
        /\ call[c].rd = "line"
        /\ call[c].src = "own"

\* C10: every line written to the transport, send_command with any string
\* included, is the command text followed by exactly one CR+LF, written in a
\* single write; set_current(12.5) writes exactly 'SETI 12.5\r\n'.
C10_CommandTerminatedOnce ==
    \A c \in Callers :
        LET k == call[c]
            text == IF k.op = "send_command" THEN RawCommands[k.args[1]]
                    ELSE k.cmd
        IN  /\ Cardinality(Writes(k)) <= 1
            /\ \A i \in Writes(k) :
                  /\ k.ev[i].bytes = text \o <<CR, LF>>
                  /\ (k.op = "set_current" /\ k.args = <<125000>>) =>
                        k.ev[i].bytes = <<"S", "E", "T", "I", " ", "1", "2",
                                          ".", "5", CR, LF>>

\* C10 witness: set_current(12.5) wrote its line.
C10_Witness ==
    \E c \in Callers :
        /\ call[c].op = "set_current"
        /\ call[c].args = <<125000>>
        /\ \E i \in Writes(call[c]) : call[c].ev[i].ok

\* C11 (as claimed): each public operation transmits the command the command
\* set assigns to it: the queries their mnemonic, the setters their mnemonic
\* and argument, and every operation that sets a quench step limit
\* 'QNCH 1,<limit>'.
C11_CommandSet ==
    \A c \in Callers :
        LET k == call[c]
            a == k.args
            expected ==
                CASE k.op = "get_identification" -> <<"*", "I", "D", "N", "?">>
                  [] k.op = "get_baud_rate" -> <<"B", "A", "U", "D", "?">>
                  [] k.op = "get_field" -> <<"R", "D", "G", "F", "?">>
                  [] k.op = "get_current" -> <<"R", "D", "G", "I", "?">>
                  [] k.op = "get_voltage" -> <<"R", "D", "G", "V", "?">>
                  [] k.op = "set_current" -> <<"S", "E", "T", "I", " ">> \o FloatRepr(a[1])
                  [] k.op = "get_compliance_voltage" -> <<"S", "E", "T", "V", "?">>
                  [] k.op = "set_compliance_voltage" -> <<"S", "E", "T", "V", " ">> \o FloatRepr(a[1])
                  [] k.op = "get_ramp_rate" -> <<"R", "A", "T", "E", "?">>
                  [] k.op = "set_ramp_rate" -> <<"R", "A", "T", "E", " ">> \o FloatRepr(a[1])
                  [] k.op = "start_ramp" -> <<"R", "A", "M", "P">>
                  [] k.op = "stop_ramp" -> <<"S", "T", "O", "P">>
                  [] k.op = "get_limits" -> <<"L", "I", "M", "I", "T", "?">>
                  [] k.op = "set_limits" ->
                         <<"L", "I", "M", "I", "T", " ">> \o FloatRepr(a[1]) \o <<",", " ">> \o FloatRepr(a[2])
                         \o <<",", " ">> \o FloatRepr(a[3])
                  [] k.op = "get_quench_detect" -> <<"Q", "N", "C", "H", "?">>
                  [] k.op = "set_quench_detect" -> <<"Q", "N", "C", "H", " ">> \o IntRepr(a[1])
                  [] k.op = "get_error_status" -> <<"E", "R", "S", "T", "R", "?">>
                  [] k.op = "set_quench_step_limit" -> <<"Q", "N", "C", "H", " ", "1", ",">> \o FloatRepr(a[1])
                  [] k.op = "set_quench_detection" -> <<"Q", "N", "C", "H", " ", "1", ",">> \o FloatRepr(a[2])
                  [] OTHER -> k.cmd
        IN  \A i \in Writes(k) : k.ev[i].bytes = expected \o <<CR, LF>>

\* C12: send_command(raw) validates nothing and rewrites nothing: it never
\* rejects raw, what it writes is raw followed by CR LF (also for 'SETV 9',
\* out of the compliance-voltage range), and when its read ends it returns
\* the received line, decoded and stripped, as it is: an empty line or a
\* timeout gives the empty string, not "NO_RESPONSE".
C12_SendCommandVerbatim ==
    \A c \in Callers :
        LET k == call[c]
            raw == RawCommands[k.args[1]]
            got == k.result.val.s
            text == Decode(k.raw)
        IN  (k.op = "send_command" /\ k.pc # "idle") =>
              /\ k.result.kind # "raise"
              /\ \A i \in Writes(k) : k.ev[i].bytes = raw \o <<CR, LF>>
              /\ (k.pc \in {"sleep", "read"} \/ k.rd \in {"timeout", "line"})
                    => \E i \in Writes(k) : k.ev[i].ok
              /\ k.rd \in {"timeout", "line"} =>
                    /\ k.result.kind = "return"
                    /\ k.result.val.t = "str"
                    /\ got # NO_RESPONSE
                    /\ got # <<>> => (got[1] \notin Whitespace
                                      /\ got[Len(got)] \notin Whitespace)
                    /\ \E i \in 1..(Len(text) + 1) :
                          /\ SubSeq(text, i, i + Len(got) - 1) = got
                          /\ \A j \in 1..Len(text) :
                                (j < i \/ j >= i + Len(got))
                                => text[j] \in Whitespace

\* C12 witness: send_command('SETV 9') wrote its line and read back an empty
\* line, which it returned as the empty string.
C12_Witness ==
    \E c \in Callers :
        /\ call[c].op = "send_command"
        /\ call[c].args = <<1>>
        /\ call[c].pc = "done"
        /\ call[c].rd = "line"
        /\ call[c].raw = <<CR, LF>>
        /\ call[c].result = Returned(Str(<<>>))

\* The lines of a text: its tokens between line feeds.
RECURSIVE TextLines(_)
TextLines(t) ==
    IF t = <<>> THEN << <<>> >>
    ELSE LET rest == TextLines(Tail(t))
         IN  IF Head(t) = LF THEN << <<>> >> \o rest
             ELSE << <<Head(t)>> \o Head(rest) >> \o Tail(rest)

\* The mapping the error-status decode is specified with.
SpecifiedHardware ==
    { <<1, "Temperature Fault">>, <<2, "Low Line Voltage">>,
      <<4, "Output Over Current">>, <<8, "Output Over Voltage">>,
      <<16, "Output Control Failure">>, <<32, "DAC Processor Not Responding">> }

SpecifiedOperational ==
    { <<1, "Calibration Error">>, <<2, "External Current Program Error">>,
      <<4, "High Line Voltage">>, <<8, "Temperature High">>,
      <<16, "Remote Inhibit Detected">>, <<32, "Magnet Quench Detected">>,
      <<64, "Magnet Discharging Through Crowbar">> }

SpecifiedPsh == { <<1, "PSH Open Circuit">>, <<2, "PSH Short Circuit">> }

RegisterTitles ==
    <<"  Hardware Errors: ", "  Operational Errors: ", "  PSH Errors: ">>

\* The bit of the one-bit mask is set in the two's complement of value.
HasBit(value, mask) ==
    \E q \in -1..64 : \E r \in 0..(mask - 1) :
        value = q * 2 * mask + mask + r

\* The lines of register n in a report: from its title line up to the next
\* title line.
RegisterSection(lines, n) ==
    LET first == CHOOSE i \in 1..Len(lines) :
                    lines[i] # <<>> /\ lines[i][1] = RegisterTitles[n]
        last == IF n = 3 THEN Len(lines)
                ELSE (CHOOSE i \in 1..Len(lines) :
                         lines[i] # <<>> /\ lines[i][1] = RegisterTitles[n + 1]) - 1
    IN  SubSeq(lines, first, last)

\* C19: for a response of three comma-separated integers get_error_status
\* reports, for each register, exactly the names of the conditions whose
\* mask bit is set in the register's value, by the specified mapping, and
\* reports 'None' for a register exactly when its value is 0.
C19_ErrorStatusNamesSetBits ==
    (dec.kind = "integers" /\ dec.result # NoResult) =>
        /\ dec.result.kind = "return"
        /\ dec.result.val.t = "str"
        /\ LET lines == TextLines(dec.result.val.s)
               mapping == <<SpecifiedHardware, SpecifiedOperational, SpecifiedPsh>>
           IN  /\ lines[1] = <<"Error Status Register:">>
               /\ \A n \in 1..3 :
                     \E i \in 1..Len(lines) :
                         /\ lines[i] # <<>> /\ lines[i][1] = RegisterTitles[n]
                         /\ \A j \in 1..Len(lines) :
                               (lines[j] # <<>> /\ lines[j][1] = RegisterTitles[n])
                               => j = i
               /\ \A n \in 1..3 :
                     LET section == RegisterSection(lines, n)
                         value == dec.values[n]
                         named == {section[i][2] : i \in 2..Len(section)}
                     IN  /\ \A i \in 2..Len(section) :
                                Len(section[i]) = 2 /\ section[i][1] = "    - "
                         /\ named = {m[2] : m \in {x \in mapping[n] :
                                                      HasBit(value, x[1])}}
                         /\ Len(section) - 1 = Cardinality(named)
                         /\ (section[1] = <<RegisterTitles[n], "None">>)
                               <=> (value = 0)
                         /\ value # 0 =>
                               section[1] = <<RegisterTitles[n]>> \o IntRepr(value)

\* C19 witness: '5,0,0' was decoded to Temperature Fault and Output Over
\* Current for the hardware register and 'None' for the two others.
C19_Witness ==
    /\ dec.response = Str(<<"5", ",", "0", ",", "0">>)
    /\ dec.result.kind = "return"
    /\ TextLines(dec.result.val.s) =
          << <<"Error Status Register:">>,
             <<"  Hardware Errors: ", "5">>,
             <<"    - ", "Output Over Current">>,
             <<"    - ", "Temperature Fault">>,
             <<"  Operational Errors: ", "None">>,
             <<"  PSH Errors: ", "None">> >>

\* C20: for a non-empty response that is not three comma-separated integers
\* get_error_status raises nothing and returns a text that contains the
\* response, unchanged.
C20_MalformedErrorStatusKeepsRawText ==
    (dec.kind = "malformed" /\ dec.result # NoResult) =>
        /\ dec.result.kind = "return"
        /\ dec.result.val.t = "str"
        /\ LET text == dec.result.val.s
               raw == dec.response.s
           IN  \E i \in 1..Len(text) :
                   SubSeq(text, i, i + Len(raw) - 1) = raw

\* C20 witness: '5,0.5,0', whose second field is no integer, was returned
\* as raw text.
C20_Witness ==
    /\ dec.kind = "malformed"
    /\ dec.response = Str(<<"5", ",", "0", ".", "5", ",", "0">>)
    /\ dec.result = Returned(Str(<<"Raw error status: ">> \o <<"5", ",", "0", ".", "5", ",", "0">>))

\* C13: close() is idempotent and never fails the run: whatever the
\* operations and however often close() is called, self.ser.close() is
\* called at most once for a client, the connection is closed after the
\* shutdown path, and no exception leaves the shutdown path (the finally
\* clause) of the CLI or of the logger, whether the connection is open or
\* was never opened.
C13_CloseIdempotentNeverFails ==
    \A c \in Callers :
        /\ closes[c] <= 1
        /\ closes[c] = 1 => ~is_open[c]
        /\ proc[c].pc = "exit" =>
              /\ proc[c].exc = "none"
              /\ ~is_open[c]
              /\ closes[c] = (IF proc[c].client = "bound" THEN 1 ELSE 0)

\* C13 witness: a CLI invocation whose port could not be opened went through
\* its shutdown path, with no client to close, and ended.
C13_Witness ==
    \E c \in Callers :
        /\ role[c] = "cli"
        /\ proc[c].pc = "exit"
        /\ proc[c].client = "unbound"
        /\ proc[c].exc = "none"
        /\ closes[c] = 0

\* A text that is a decimal number: a sign, digits, at most one point.
Numeric(text) ==
    /\ text # NO_RESPONSE
    /\ \A i \in 1..Len(text) : text[i] \in DigitSet \cup {"+", "-", "."}
    /\ \A i \in 2..Len(text) : text[i] \notin {"+", "-"}
    /\ \E i \in 1..Len(text) : text[i] \in DigitSet
    /\ Cardinality({i \in 1..Len(text) : text[i] = "."}) <= 1

\* The number x is what the text says: its digits are the digits Python
\* prints for x, the sign '+' apart.
ReadsAs(text, x) ==
    SelectSeq(text, LAMBDA ch : ch # "+") = FloatRepr(x)

\* C14: a reading that is 'no response' or does not decode does not abort
\* the record: each reading of the logger is populated exactly when its text
\* decodes, absent when it is NO_RESPONSE or no number, and get_ramp_data
\* returns the record of the four readings; no decode failure leaves the
\* loop.  (A decode cut short by an interrupt signal is C17's matter.)
C14_FailedReadingsAbsentOthersPopulated ==
    \A c \in Callers :
        LET p == proc[c]
            last == p.vals[Len(p.vals)]
        IN  role[c] = "logger" =>
              /\ p.pc = "failed" => p.exc = "Exception"
              /\ p.pc = "interrupted" => p.exc = "KeyboardInterrupt"
              /\ p.pc \in {"store", "append", "sleep"} => Len(p.vals) = 4
              /\ p.pc \in {"query", "decode"} => Len(p.vals) < 4
              /\ (p.pc \in {"query", "store"} /\ p.got # None /\ ~p.cut) =>
                    /\ p.vals # <<>>
                    /\ last.ok <=> Numeric(p.got.s)
                    /\ last.ok => ReadsAs(p.got.s, last.x)
                    /\ p.got.s = NO_RESPONSE => ~last.ok

\* C14 witness: a record whose field reading was not a number ('5,0,0') and
\* whose three other readings decoded is handed to the loop: rate, current
\* and voltage populated, field absent.
C14_Witness ==
    \E c \in Callers :
        /\ role[c] = "logger"
        /\ proc[c].pc = "store"
        /\ proc[c].got = Str(<<"5", ",", "0", ",", "0">>)
        /\ proc[c].vals = <<Float(125000), Float(125000), Float(125000), Absent>>

\* C16 (as claimed): a new logger run never overwrites a prior one: whatever
\* the interleaving of the runs of a day, no run creates, truncates or
\* writes a file that another run selected or used, and no row a run
\* appended to its file is lost while the run goes on.
C16_NoRunTouchesAnothersFile ==
    \A n \in FileNames : \A c \in files[n].users :
        \A d \in Callers \ {c} :
            /\ d \notin files[n].users
            /\ proc[d].name # n

\* C15 (as claimed): each record is appended to the log file right after it
\* is read and before the sleep of its interval: whenever a run is sleeping
\* or has begun a new iteration, every record it has read so far is in its
\* file.
C15_RecordsInFileBeforeSleep ==
    \A c \in Callers :
        LET p == proc[c]
            read == IF p.pc = "sleep" THEN p.iter ELSE p.iter - 1
        IN  (role[c] = "logger" /\ p.pc \in {"sleep", "query", "decode"}) =>
              /\ Len(p.ramp_data) = read
              /\ \A i \in 1..read :
                    /\ p.ramp_data[i].iter = i
                    /\ \E j \in 1..Len(files[p.name].rows) :
                          files[p.name].rows[j] = p.ramp_data[i]

\* C17 (as claimed): an interrupt signal delivered at any point of the
\* polling loop ends the loop: after it the logger is in the loop no more, it
\* issues no further query, the connection is closed when the run has ended,
\* and the rows appended to its file are still there.
C17_InterruptEndsLoop ==
    \A c \in Callers :
        LET p == proc[c]
        IN  (role[c] = "logger" /\ p.signalled) =>
              /\ p.pc \in {"interrupted", "finally", "exit"}
              /\ ~p.late
              /\ p.pc = "exit" => ~is_open[c]
              /\ \A i \in 1..Len(files[p.name].rows) :
                    files[p.name].rows[i] \in
                        {p.ramp_data[j] : j \in 1..Len(p.ramp_data)}

\* C18: the polling loop keeps running across device silence: a logger one
\* of whose reads timed out or failed ('no response') or gave no number
\* gets to the next iteration with the record of this one, that reading
\* absent, in its file, unless an
\* interrupt signal or an error outside the reads (raised where the row is
\* stored and printed) ends the loop first; no silent or failed read ends it.
\* Stated for the iterations before the last one the model follows.
C18_LoopSurvivesSilence ==
    \A c \in Callers : \A i \in 1..(MaxRecords - 1) :
        (/\ role[c] = "logger"
         /\ proc[c].pc = "decode"
         /\ proc[c].iter = i
         /\ ~Numeric(proc[c].got.s))
        ~> (\/ /\ proc[c].pc = "query"
               /\ proc[c].iter = i + 1
               /\ \E j \in 1..Len(files[proc[c].name].rows) :
                     /\ files[proc[c].name].rows[j].by = c
                     /\ files[proc[c].name].rows[j].iter = i
                     /\ \E k \in 1..4 : ~files[proc[c].name].rows[j].vals[k].ok
            \/ proc[c].signalled
            \/ /\ proc[c].pc = "failed"
               /\ proc[c].exc = "Exception"
               /\ Len(proc[c].ramp_data) = i)

\* C18 witness: after an iteration in which all four reads were silent the
\* logger has persisted the record of that iteration and begun the next.
C18_Witness ==
    \E c \in Callers :
        /\ role[c] = "logger"
        /\ ~proc[c].signalled
        /\ proc[c].pc = "query"
        /\ proc[c].iter = 2
        /\ files[proc[c].name].rows =
              <<Row(c, 1, <<Absent, Absent, Absent, Absent>>)>>

\* The fields of a text between commas, blanks around them removed.
Fields(text) == [i \in 1..Len(Split(text)) |-> Strip(Split(text)[i])]

\* C21 (as claimed): for every quench status response the decode reports
\* enabled when the first field is '1' and disabled when it is '0', one
\* field or several; reports the second field as the step limit exactly
\* when there is one; and always shows the text as received.
C21_QuenchStatusDecoded ==
    (dec.kind = "quench" /\ dec.result # NoResult
     /\ dec.response.s # NO_RESPONSE) =>
        LET lines == TextLines(dec.result.val.s)
            shown == {lines[i] : i \in 1..Len(lines)}
            fields == Fields(dec.response.s)
        IN  /\ dec.result.kind = "return"
            /\ <<"Quench detection: ">> \o dec.response.s \in shown
            /\ (<<"Quench Detection: ON">> \in shown) <=> (fields[1] = <<"1">>)
            /\ (<<"Quench Detection: OFF">> \in shown) <=> (fields[1] = <<"0">>)
            /\ Len(fields) >= 2 =>
                  <<"Step Limit: ">> \o fields[2] \o <<" A/s">> \in shown
            /\ Len(fields) = 1 =>
                  \A i \in 1..Len(lines) : lines[i][1] # "Step Limit: "
            /\ Len(lines) <= 3

\* C22 (as claimed): the limits decode reports three separate limits exactly
\* when the response splits into three fields that are numbers, and
\* presents the raw text for every other response.
C22_LimitsDecoded ==
    (dec.kind = "limits" /\ dec.result # NoResult
     /\ dec.response.s # NO_RESPONSE) =>
        LET lines == TextLines(dec.result.val.s)
            fields == Fields(dec.response.s)
            numbers == Len(fields) = 3 /\ \A i \in 1..3 : Numeric(fields[i])
        IN  /\ dec.result.kind = "return"
            /\ numbers =>
                  lines = << <<"Current limit: ">> \o fields[1] \o <<" A">>,
                             <<"Voltage limit: ">> \o fields[2] \o <<" V">>,
                             <<"Rate limit: ">> \o fields[3] \o <<" A/s">> >>
            /\ ~numbers => lines = << <<"Limits: ">> \o dec.response.s >>


\* The transport calls of one send_command, in the order of its code.
Transaction == <<"reset", "write", "sleep", "read">>

\* C23: the transport events of every call are, in order, one reset, one
\* write, the settle wait and one read, cut short only by a failed event or
\* before the first one by a rejected argument; a failed reset or write is
\* the call's last event, so no read follows it; and a caller's events start
\* anew only after its previous call is over, its read having returned a
\* line, timed out or failed.
C23_OneTransactionPerCall ==
    /\ [](\A c \in Callers :
            LET k == call[c]
                n == Len(k.ev)
            IN  /\ n <= Len(Transaction)
                /\ \A i \in 1..n : k.ev[i].t = Transaction[i]
                /\ \A i \in 1..n : ~k.ev[i].ok => i = n /\ k.pc = "done"
                /\ k.pc = "idle" => n = 0
                /\ k.pc = "reset" => n = 0
                /\ k.pc = "write" => n = 1
                /\ k.pc = "sleep" => n = 2
                /\ k.pc = "read" => n = 3
                /\ (k.pc = "done" /\ k.rd \in {"line", "timeout"}) => n = 4
                /\ (k.pc = "done" /\ n = 4 /\ ~k.ev[4].ok) => k.rd = "fault")
    /\ [][\A c \in Callers :
            /\ Len(call'[c].ev) > Len(call[c].ev) =>
                  /\ Len(call'[c].ev) = Len(call[c].ev) + 1
                  /\ SubSeq(call'[c].ev, 1, Len(call[c].ev)) = call[c].ev
                  /\ call'[c].op = call[c].op
            /\ Len(call'[c].ev) < Len(call[c].ev) =>
                  /\ call[c].pc = "done"
                  /\ call'[c].pc = "idle"]_vars

\* Reached: a call that went through the whole transaction and read a line.
C23_Witness ==
    \E c \in Callers :
        /\ call[c].pc = "done"
        /\ call[c].rd = "line"
        /\ Len(call[c].ev) = 4
        /\ \A i \in 1..4 : call[c].ev[i].ok


\* C25: once close() was called on a client, a call made on it writes no
\* byte, a query returns "NO_RESPONSE", a setter with accepted arguments
\* and send_command return None, none of them raises, and the connection
\* stays closed.
C25_ClosedClientAnswersNoResponse ==
    /\ [](\A c \in Callers :
            (role[c] # "off" /\ closes[c] >= 1) =>
                LET k == call[c]
                IN  /\ ~is_open[c]
                    /\ \A i \in 1..Len(k.ev) :
                          k.ev[i].t # "write" /\ k.ev[i].bytes = <<>>
                    /\ (k.pc = "done" /\ Prepare(k.op, k.args).ok) =>
                          /\ k.op \in Queries =>
                                k.result = Returned(Str(NO_RESPONSE))
                          /\ k.op \notin Queries => k.result = Returned(None))
    /\ [][\A c \in Callers : (role[c] # "off" /\ ~is_open[c]) => ~is_open'[c]]_vars

\* Reached: after close() a query gave "NO_RESPONSE" having touched the
\* transport only for the reset that failed.
C25_Witness ==
    \E c \in Callers :
        /\ closes[c] >= 1
        /\ call[c].pc = "done"
        /\ call[c].op = "get_current"
        /\ call[c].ev = <<Event("reset", FALSE, <<>>)>>
        /\ call[c].result = Returned(Str(NO_RESPONSE))


\* C24: the name a logger run selects (0: '<D>_ramp_log.csv', n >= 1:
\* '<D>_ramp_log_<n>.csv') names no file that exists when it is selected,
\* and every name before it does: the base name when it is free, else the
\* smallest free number.
C24_SmallestFreeNameSelected ==
    [][\A c \in Callers :
          (proc[c].pc = "start" /\ proc'[c].pc = "create") =>
              LET n == proc'[c].name
              IN  /\ n \in FileNames
                  /\ ~files[n].exists
                  /\ \A m \in 0..(n - 1) : files[m].exists]_vars

\* Reached: on a day that had the base file, one run selected and created
\* '_1' and the run after it selected '_2'.
C24_Witness ==
    \E c \in Callers : \E d \in Callers \ {c} :
        /\ files[0].users = {0}
        /\ proc[c].name = 1
        /\ files[1].users = {c}
        /\ proc[d].pc = "create"
        /\ proc[d].name = 2
        /\ ~files[2].exists


\* The commands that set a parameter of the ramp: SETV, SETI, RATE, LIMIT.
ParameterSetters ==
    {"set_compliance_voltage", "set_current", "set_ramp_rate", "set_limits"}

\* RAMP was written to the port in this invocation.
RampTransmitted(c) ==
    \/ \E i \in 1..Len(proc[c].log) :
          proc[c].log[i] = Logged("start_ramp", "written")
    \/ /\ call[c].op = "start_ramp"
       /\ \E i \in 1..Len(call[c].ev) : call[c].ev[i].t = "write" /\ call[c].ev[i].ok

\* C26 (as claimed): in a CLI invocation RAMP is written only when every
\* parameter-setting option of the command line passes validation and its
\* call is over.
C26_RampAfterParameters ==
    \A c \in Callers :
        (role[c] = "cli" /\ RampTransmitted(c)) =>
            \A j \in 1..Len(proc[c].asked) :
                LET o == proc[c].asked[j]
                IN  o.op \in ParameterSetters =>
                      /\ Prepare(o.op, o.a).ok
                      /\ \E i \in 1..Len(proc[c].log) : proc[c].log[i].op = o.op

====
